---- MODULE Spec2Model ----
(***************************************************************************)
(* eth-cli-vault: the encrypted-secret lifecycle of the wallet CLI.        *)
(*                                                                         *)
(* The model is one shell session: commands of the CLI are run one after   *)
(* the other against a persistent storage (local file system and cloud     *)
(* object store), a random source and an Ethereum node.  Cryptographic     *)
(* primitives are modelled symbolically: a derived key, a sealed box, a    *)
(* seed or an address is the term built from its inputs, so two terms are  *)
(* equal exactly when their inputs are.                                    *)
(***************************************************************************)
EXTENDS Integers, Sequences, FiniteSets, TLC

VARIABLES
    store,      \* storage: destination -> stored bytes (<<>> when absent)
    rngCount,   \* number of reads of crypto/rand.Reader so far
    sealLog,    \* history: one entry per gcm.Seal call
    createLog,  \* history: one entry per address announced by create / create-special
    writeLog,   \* history: one entry per write a Put performed
    deriveLog,  \* history: one entry per key derived from a loaded wallet file
    net,        \* history: transactions handed to the node by BroadcastTransaction
    pc,         \* position of the running command ("idle" between commands)
    cur,        \* flags and locals of the running command
    out,        \* what the last finished command printed / returned
    runs,       \* number of commands started
    faults,     \* number of changes made to stored files behind the program's back
    world       \* the collaborators outside the wallet files: keychain, HTTP mux,
                \* authorization servers, chain node

vars == <<store, rngCount, sealLog, createLog, writeLog, deriveLog, net, pc, cur, out, runs,
          faults, world>>

(***************************************************************************)
(* Bounds of the model.                                                    *)
(***************************************************************************)
MaxDraws == 6       \* reads of the random source in one session
MaxRuns == 2        \* commands started in one session
MaxFaults == 1      \* changes made to stored files behind the program's back
MaxAttempts == 3    \* iterations of the vanity search explored
MaxPolls == 3       \* receipt queries answered "not found" in one wait
MaxOps == 2         \* storage operations of one process on OAuth providers
NibbleSpace == 3    \* distinct leading address digits the model tells apart

(***************************************************************************)
(* Program constants.                                                      *)
(***************************************************************************)
SaltLen == 16
NonceSize == 12
EntropyBits == 256
Iterations == 12
Parallelism == 4
KeyLength == 32
Memory == 1024 * 1024
\* a component of a derivation path: its index, hardened (0x80000000 + i) or not
Hard(i) == <<i, "'">>
Soft(i) == <<i, "">>

DefaultDerivationPathStr == "m/44'/60'/0'/0/0"
DefaultHDPathStr == "m/44'/60'/0'/0"
OtherDerivationPathStr == "m/44'/60'/0'/0/1"

\* hdwallet.DefaultBaseDerivationPath = m/44'/60'/0'/0/0
DefaultBaseDerivationPath == <<Hard(44), Hard(60), Hard(0), Soft(0), Soft(0)>>

(***************************************************************************)
(* Inputs the user can type.  A password is the sequence of its characters.*)
(***************************************************************************)
PwA == <<"A", "b", "c", "d", "1", "2", "3", "!">>
Passwords == {PwA, <<"Z", "y", "x", "w", "9", "8", "7", "#">>,
              <<"a", "b", "c", "d", "e", "f", "g", "h">>}
NoPassphrase == <<>>
PassD == <<"D", "d", "4", "$">>
Passphrases == {NoPassphrase, PassD}
\* a passphrase of lowercase letters only
PassLower == <<"d", "d", "d", "d">>

CLOUD_PROVIDERS == {"s3"}
LocalPath == "/tmp/wallet.json"
Dests == {LocalPath} \cup CLOUD_PROVIDERS
NoFile == <<>>

(***************************************************************************)
(* crypto/rand.Reader: the k-th read of the session returns n bytes that   *)
(* no other read returns (an ideal CSPRNG), or fails.                      *)
(***************************************************************************)
\* a random source that repeats itself (a generator seeded with a constant)
RandReadRepeating(k, n, fails) ==
    [ok |-> ~fails, bytes |-> [id |-> IF fails THEN 0 ELSE 1, len |-> n, x |-> 0]]

RandRead(k, n, fails) ==
    [ok |-> ~fails, bytes |-> [id |-> IF fails THEN 0 ELSE k, len |-> n, x |-> 0]]

\* an encoding that does not give the bytes back
B64EncodeLossy(b) == <<"b64", [b EXCEPT !.x = 1]>>

\* base64.StdEncoding: a string that is not the bytes themselves
B64Encode(b) == <<"b64", b>>
B64Decode(s) == s[2]

(***************************************************************************)
(* Argon2id, AES-256-GCM (symbolic).                                       *)
(***************************************************************************)
\* a key that does not depend on the password
IDKeyNoPassword(password, salt, time, memory, threads, keyLen) ==
    [pw |-> <<>>, salt |-> salt, t |-> time, m |-> memory, p |-> threads, len |-> keyLen]

IDKey(password, salt, time, memory, threads, keyLen) ==
    [pw |-> password, salt |-> salt, t |-> time, m |-> memory, p |-> threads, len |-> keyLen]

\* aes.NewCipher accepts keys of 16, 24 or 32 bytes
NewCipherOK(key) == key.len \in {16, 24, 32}

\* gcm.Seal: ciphertext and tag bound to key, nonce and plaintext; x = 0 marks
\* the bytes exactly as produced, x # 0 the same bytes with a bit flipped.
Seal(key, nonce, plaintext) == [k |-> key, n |-> nonce, p |-> plaintext, x |-> 0]

\* gcm.Open: the tag verifies only for the untouched bytes under the same key and nonce
Open(key, nonce, ct) ==
    IF ct.k = key /\ ct.n = nonce /\ ct.x = 0
    THEN [ok |-> TRUE, p |-> ct.p]
    ELSE [ok |-> FALSE, p |-> <<>>]

EmptyEnvelope ==
    [Version |-> 0, Algorithm |-> "", KeyDerivation |-> "", Memory |-> 0,
     Iterations |-> 0, Parallelism |-> 0, KeyLength |-> 0,
     Salt |-> <<>>, Nonce |-> <<>>, Ciphertext |-> <<>>]

\* util.EncryptMnemonic; rd[1], rd[2] are the results of its two reads of rand.Reader
EncryptMnemonic(mnemonic, password, rd) ==
    LET result == [EmptyEnvelope EXCEPT
                     !.Version = 1, !.Algorithm = "AES-256-GCM",
                     !.KeyDerivation = "Argon2id", !.Memory = Memory,
                     !.Iterations = Iterations, !.Parallelism = Parallelism,
                     !.KeyLength = KeyLength]
        salt == rd[1]
        r1 == [result EXCEPT !.Salt = B64Encode(salt.bytes)]
        key == IDKey(password, salt.bytes, r1.Iterations, r1.Memory, r1.Parallelism, r1.KeyLength)
        nonce == rd[2]
        r2 == [r1 EXCEPT !.Nonce = B64Encode(nonce.bytes),
                         !.Ciphertext = B64Encode(Seal(key, nonce.bytes, mnemonic))]
    IN  IF ~salt.ok
        THEN [env |-> result, err |-> "failed to generate random salt", reads |-> 1, seals |-> <<>>]
        ELSE IF ~NewCipherOK(key)
        THEN [env |-> r1, err |-> "invalid key size", reads |-> 1, seals |-> <<>>]
        ELSE IF ~nonce.ok
        THEN [env |-> r1, err |-> "unexpected EOF", reads |-> 2, seals |-> <<>>]
        ELSE [env |-> r2, err |-> "", reads |-> 2,
              seals |-> <<[key |-> key, nonce |-> nonce.bytes, salt |-> salt.bytes,
                           password |-> password, mnemonic |-> mnemonic, env |-> r2]>>]

\* util.DecryptMnemonic: re-derive the key from the envelope's own salt and
\* parameters, open the box, one undifferentiated error on failure
DecryptMnemonic(env, password) ==
    LET key == IDKey(password, B64Decode(env.Salt), env.Iterations, env.Memory,
                     env.Parallelism, env.KeyLength)
        opened == Open(key, B64Decode(env.Nonce), B64Decode(env.Ciphertext))
    IN  IF opened.ok
        THEN [mnemonic |-> opened.p, err |-> ""]
        ELSE [mnemonic |-> <<>>, err |-> "decryption failed"]

(***************************************************************************)
(* BIP39 / BIP32 derivation (symbolic).                                    *)
(***************************************************************************)
\* bip39.NewMnemonic: the words encode the entropy
NewMnemonic(entropy) == <<"bip39", entropy>>

\* bip39.NewSeed(mnemonic, passphrase)
NewSeed(mnemonic, passphrase) == [m |-> mnemonic, pp |-> passphrase]

\* hdwallet.ParseDerivationPath on the path strings of the model
ParseDerivationPath(s) ==
    CASE s = DefaultDerivationPathStr ->
           [ok |-> TRUE, path |-> <<Hard(44), Hard(60), Hard(0), Soft(0), Soft(0)>>]
      [] s = DefaultHDPathStr ->
           [ok |-> TRUE, path |-> <<Hard(44), Hard(60), Hard(0), Soft(0)>>]
      [] s = OtherDerivationPathStr ->
           [ok |-> TRUE, path |-> <<Hard(44), Hard(60), Hard(0), Soft(0), Soft(1)>>]
      [] OTHER -> [ok |-> FALSE, path |-> <<>>]

\* The leading hex digit of an address, the part a vanity pattern looks at.
Nibble(seed, path) ==
    (seed.m[2].id + Len(seed.pp) + Len(path) + path[Len(path)][1]) % NibbleSpace

\* wallet.Derive + account.Address.Hex(): the account of a seed at a path
Derive(seed, path) ==
    [address |-> [seed |-> seed, path |-> path, nib |-> Nibble(seed, path)],
     privateKey |-> [seed |-> seed, path |-> path]]

\* derivation that stops at the account root m/44'/60'/0'/0, whatever path is asked
getAddressFromMnemonicAtRoot(mnemonic, passphrase, derivationPath) ==
    LET seed == NewSeed(mnemonic, passphrase)
        path == <<Hard(44), Hard(60), Hard(0), Soft(0)>>
    IN  [address |-> <<Derive(seed, path).address>>,
         privateKey |-> <<Derive(seed, path).privateKey>>,
         path |-> path, err |-> ""]

\* cmd.getAddressFromMnemonic(mnemonic, passphrase, derivationPath)
getAddressFromMnemonic(mnemonic, passphrase, derivationPath) ==
    LET seed == NewSeed(mnemonic, passphrase)
        parsed == ParseDerivationPath(derivationPath)
        path == IF derivationPath # "" THEN parsed.path ELSE DefaultBaseDerivationPath
    IN  IF derivationPath # "" /\ ~parsed.ok
        THEN [address |-> <<>>, privateKey |-> <<>>, path |-> <<>>,
              err |-> "error parsing derivation path"]
        ELSE [address |-> <<Derive(seed, path).address>>,
              privateKey |-> <<Derive(seed, path).privateKey>>,
              path |-> path, err |-> ""]

\* derivation that leaves the BIP39 passphrase out of the seed
getAddressFromMnemonicNoPassphrase(mnemonic, passphrase) ==
    LET seed == NewSeed(mnemonic, <<>>)
        path == DefaultBaseDerivationPath
    IN  [address |-> <<Derive(seed, path).address>>,
         privateKey |-> <<Derive(seed, path).privateKey>>,
         path |-> path, err |-> ""]

\* cmd.getAddressFromMnemonic(mnemonic, passphrase) as the get command links it:
\* always the standard path
getAddressFromMnemonicStd(mnemonic, passphrase) ==
    LET seed == NewSeed(mnemonic, passphrase)
        path == DefaultBaseDerivationPath
    IN  [address |-> <<Derive(seed, path).address>>,
         privateKey |-> <<Derive(seed, path).privateKey>>,
         path |-> path, err |-> ""]

(***************************************************************************)
(* Password strength.                                                      *)
(***************************************************************************)
UpperChars == {"A", "B", "C", "D", "E", "F", "G", "H", "I", "J", "K", "L", "M",
               "N", "O", "P", "Q", "R", "S", "T", "U", "V", "W", "X", "Y", "Z"}
LowerChars == {"a", "b", "c", "d", "e", "f", "g", "h", "i", "j", "k", "l", "m",
               "n", "o", "p", "q", "r", "s", "t", "u", "v", "w", "x", "y", "z"}
DigitChars == {"0", "1", "2", "3", "4", "5", "6", "7", "8", "9"}
SpecialChars == {"!", "@", "#", "$", "%", "^", "&", "*", "(", ")", "-", "_", "+",
                 "=", "{", "}", "[", "]", "|", ":", ";", "dquote", "'", "<", ">",
                 ",", ".", "?", "/", "backslash", "backquote", "~"}

\* the UTF-8 encoding of a character of the model: "eacute" (e with an acute accent) takes two bytes
\* len(password): the number of bytes of the string
RECURSIVE ByteLen(_)
ByteLen(password) ==
    IF password = <<>> THEN 0 ELSE (IF Head(password) = "eacute" THEN 2 ELSE 1) + ByteLen(Tail(password))

isStrongPassword(password) ==
    IF ByteLen(password) < 8
    THEN FALSE
    ELSE /\ \E i \in 1..Len(password) : password[i] \in UpperChars
         /\ \E i \in 1..Len(password) : password[i] \in LowerChars
         /\ \E i \in 1..Len(password) : password[i] \in DigitChars
         /\ \E i \in 1..Len(password) : password[i] \in SpecialChars

\* strings.ToLower on the answers of the model
ToLower(s) ==
    CASE s = "Y" -> "y"
      [] s = "YES" -> "yes"
      [] s = "N" -> "n"
      [] OTHER -> s

\* fmt.Scanln(&answer): the first whitespace-separated word of the typed line
Scanln(line) == IF line = <<>> THEN "" ELSE Head(line)

(***************************************************************************)
(* Wallet file and storage.                                                *)
(***************************************************************************)
\* a wallet file that keeps the mnemonic next to its envelope
WalletFilePlain(envelope, hdPath, derivationPath) ==
    [Version |-> 1, EncryptedMnemonic |-> envelope, HDPath |-> hdPath,
     DerivationPath |-> derivationPath, TestNet |-> FALSE,
     Mnemonic |-> IF envelope.Ciphertext = <<>> THEN <<>>
                  ELSE B64Decode(envelope.Ciphertext).p]

WalletFile(envelope, hdPath, derivationPath) ==
    [Version |-> 1, EncryptedMnemonic |-> envelope, HDPath |-> hdPath,
     DerivationPath |-> derivationPath, TestNet |-> FALSE]

\* json.MarshalIndent / json.Unmarshal of a wallet file
Marshal(wallet) == <<"json", wallet>>
Unmarshal(data) == data[2]

Exists(st, d) == st[d] # NoFile

\* Outcomes of the environment for one Put: the existence probe and the write
\* both succeed ("ok"), the probe fails ("probe_error"), the write fails ("write_error")
PutEnvs == {"ok", "probe_error", "write_error"}

\* LocalStorage.Put: os.Stat without error means the file exists; os.Exit(1) if
\* it does and withForce is not set.  A path os.Stat cannot reach cannot be
\* written either.
LocalPut(st, d, data, withForce, env) ==
    IF ~withForce /\ Exists(st, d) /\ env # "probe_error"
    THEN [store |-> st, status |-> "exit", wrote |-> FALSE]
    ELSE IF env \in {"write_error", "probe_error"}
    THEN [store |-> st, status |-> "error", wrote |-> FALSE]
    ELSE [store |-> [st EXCEPT ![d] = data], status |-> "ok", wrote |-> TRUE]

\* util.UploadToS3: HeadObject without error means the object exists; any
\* error of HeadObject is taken as absence; then PutObject
UploadToS3(st, d, data, withForce, env) ==
    LET headErr == ~Exists(st, d) \/ env = "probe_error"
    IN  IF ~withForce /\ ~headErr
        THEN [store |-> st, status |-> "exit", wrote |-> FALSE]
        ELSE IF env = "write_error"
        THEN [store |-> st, status |-> "error", wrote |-> FALSE]
        ELSE [store |-> [st EXCEPT ![d] = data], status |-> "ok", wrote |-> TRUE]

\* util.Put: StorageFactory.NewStorage(provider).Put(data, filePath, withForce)
Put(st, d, data, withForce, env) ==
    IF d = "s3"
    THEN UploadToS3(st, d, data, withForce, env)
    ELSE LocalPut(st, d, data, withForce, env)

\* util.Get: the stored bytes, or an error when there are none
Get(st, d) ==
    IF Exists(st, d) THEN [data |-> st[d], err |-> ""]
    ELSE [data |-> NoFile, err |-> "not found"]

(***************************************************************************)
(* State of a command and of its output.  A command runs from one prompt   *)
(* of the terminal to the next in one step.                                *)
(***************************************************************************)
Idle ==
    [cmd |-> "", force |-> FALSE, outs |-> <<>>, skipPrompt |-> FALSE, d |-> "",
     file |-> NoFile, password |-> <<>>, passphrase |-> <<>>,
     pattern |-> "", attempts |-> 0, mnemonic |-> <<>>, address |-> <<>>,
     privateKey |-> <<>>, dryRun |-> FALSE, estimateOnly |-> FALSE,
     autoConfirm |-> FALSE, broadcast |-> FALSE, signedTx |-> <<>>, response |-> "",
     derivationPath |-> "", hex |-> FALSE, message |-> "", entropyErr |-> FALSE,
     approval |-> <<>>, args |-> <<>>, polls |-> 0, slept |-> 0]

\* envelope: what EncryptMnemonic returned to the command, when it called it
NoOut ==
    [cmd |-> "", status |-> "", address |-> <<>>, file |-> NoFile,
     password |-> <<>>, passphrase |-> <<>>, path |-> <<>>, envelope |-> <<>>,
     dest |-> ""]

\* the command ends: its output is `o`
Finish(o) ==
    /\ pc' = "idle"
    /\ cur' = Idle
    /\ out' = o

Failed(cmd, status) == [NoOut EXCEPT !.cmd = cmd, !.status = status]

\* --output values of the model: nothing, "fs" (with --path), a cloud provider,
\* a local directory followed by a cloud provider (with --name)
OutputChoices == {<<>>, <<"fs">>, <<"s3">>, <<"/tmp", "s3">>}

IsCloud(o) == o \in CLOUD_PROVIDERS
IsLocal(o) == o \notin CLOUD_PROVIDERS

\* create.go 65-88 and 218-244: local paths are saved first, then cloud
\* providers; every local output of the model resolves to LocalPath
SaveOrder(outs) ==
    [i \in 1..Len(SelectSeq(outs, IsLocal)) |-> LocalPath] \o SelectSeq(outs, IsCloud)

LocalDests(outs) == {LocalPath : i \in 1..Len(SelectSeq(outs, IsLocal))}

\* the flags checks at the top of create / create-special
UsageError(outs, pathGiven, nameGiven) ==
    \/ outs = <<>>
    \/ outs = <<"fs">> /\ ~pathGiven
    \/ outs # <<"fs">> /\ ~nameGiven

\* how Execute ends on create's flags: cobra refuses a missing required flag
\* before Run and Execute returns its error; the checks inside Run print with
\* fmt.Println to the process's stdout, write the usage text (which lists every
\* flag) to the command's output and end the process with os.Exit(1)
\*   err: the error Execute returns; exit: the code os.Exit was called with;
\*   printed: flag names in what was written to the command's output
ExecuteCreateFlags(outs, pathGiven, nameGiven) ==
    LET flags == {"--output", "--name", "--path", "--without-passphrase", "--force"}
    IN  IF outs = <<>>
        THEN [err |-> "required flag(s) output not set", exit |-> <<>>,
              printed |-> flags, run |-> FALSE]
        ELSE IF UsageError(outs, pathGiven, nameGiven)
        THEN [err |-> "", exit |-> <<1>>, printed |-> flags, run |-> TRUE]
        ELSE [err |-> "", exit |-> <<>>, printed |-> {}, run |-> TRUE]

\* the two save loops: each Put either writes, reports an error and lets the
\* loop go on, or ends the process
RECURSIVE SaveAll(_, _, _, _, _)
SaveAll(st, dests, data, force, env) ==
    IF dests = <<>>
    THEN [store |-> st, exited |-> FALSE, log |-> {}, saved |-> 0]
    ELSE LET d == Head(dests)
             r == Put(st, d, data, force, env[d])
             rest == SaveAll(r.store, Tail(dests), data, force, env)
             entry == [d |-> d, existed |-> Exists(st, d), force |-> force]
         IN  IF r.status = "exit"
             THEN [store |-> st, exited |-> TRUE, log |-> {}, saved |-> 0]
             ELSE [store |-> rest.store, exited |-> rest.exited,
                   log |-> (IF r.wrote THEN {entry} ELSE {}) \cup rest.log,
                   saved |-> (IF r.wrote THEN 1 ELSE 0) + rest.saved]

\* the answer to a y/n question of create, get and processWalletData
SaysYes(line) == ToLower(Scanln(line)) = "y" \/ ToLower(Scanln(line)) = "yes"

AnswerLines == {<<"y">>, <<"Y">>, <<"yes">>, <<"n">>, <<>>, <<"y", "no">>}

\* the environments of the Puts of one command: one outcome per destination written
PutEnvsOf(outs) ==
    {env \in [Dests -> PutEnvs] :
        \A d \in Dests : (\A i \in 1..Len(SaveOrder(outs)) : SaveOrder(outs)[i] # d) => env[d] = "ok"}

(***************************************************************************)
(* create                                                                  *)
(***************************************************************************)
\* create.go 40-104: flags, output locations, existing local files
CreateStart(force, outs, pathGiven, nameGiven, skipPrompt) ==
    /\ pc = "idle"
    /\ runs < MaxRuns
    /\ runs' = runs + 1
    /\ IF UsageError(outs, pathGiven, nameGiven)
       THEN Finish(Failed("create", "usage"))
       ELSE IF ~force /\ \E d \in LocalDests(outs) : Exists(store, d)
       THEN Finish(Failed("create", "exists"))
       ELSE /\ pc' = "create_password"
            /\ cur' = [Idle EXCEPT !.cmd = "create", !.force = force, !.outs = outs,
                                   !.skipPrompt = skipPrompt]
            /\ out' = NoOut
    /\ UNCHANGED <<store, rngCount, sealLog, createLog, writeLog, deriveLog, net, faults, world>>

\* create.go 106-137 (create_special.go 189-220): the AES password, twice, and its strength
EnterPassword(password, confirm) ==
    /\ pc \in {"create_password", "special_password"}
    /\ IF password # confirm
       THEN Finish(Failed(cur.cmd, "mismatch"))
       ELSE IF ~isStrongPassword(password)
       THEN Finish(Failed(cur.cmd, "weak"))
       ELSE /\ cur' = [cur EXCEPT !.password = password]
            /\ pc' = IF pc = "special_password" THEN "special_save"
                     ELSE IF cur.skipPrompt THEN "create_save" ELSE "create_passphrase"
            /\ out' = out
    /\ UNCHANGED <<store, rngCount, sealLog, createLog, writeLog, deriveLog, net, runs, faults, world>>

\* create.go 139-181: the BIP39 passphrase dialogue
CreatePassphrase(line, typed, confirm) ==
    /\ pc = "create_passphrase"
    /\ IF SaysYes(line)
       THEN IF typed # confirm
            THEN Finish(Failed("create", "passphrase_mismatch"))
            ELSE /\ cur' = [cur EXCEPT !.passphrase = typed]
                 /\ pc' = "create_save"
                 /\ out' = out
       ELSE /\ cur' = [cur EXCEPT !.passphrase = NoPassphrase]
            /\ pc' = "create_save"
            /\ out' = out
    /\ UNCHANGED <<store, rngCount, sealLog, createLog, writeLog, deriveLog, net, runs, faults, world>>

\* create.go 183-253: mnemonic, envelope, wallet file, the Puts, the address
CreateOutcome(st, rng, force, outs, password, passphrase, failAt, env) ==
    LET entropy == RandRead(rng + 1, EntropyBits \div 8, failAt = 1)
        mnemonic == NewMnemonic(entropy.bytes)
        enc == EncryptMnemonic(mnemonic, password,
                   <<RandRead(rng + 2, SaltLen, failAt = 2),
                     RandRead(rng + 3, NonceSize, failAt = 3)>>)
        wallet == WalletFile(enc.env, DefaultHDPathStr, DefaultDerivationPathStr)
        walletJSON == Marshal(wallet)
        saved == SaveAll(st, SaveOrder(outs), walletJSON, force, env)
        derived == getAddressFromMnemonic(mnemonic, passphrase, wallet.DerivationPath)
        status ==
            CASE ~entropy.ok -> "entropy"
              [] enc.err # "" -> "encrypt"
              [] saved.exited -> "put_exit"
              [] derived.err # "" -> "address"
              [] OTHER -> "ok"
        saving == status \in {"put_exit", "address", "ok"}
    IN  [status |-> status,
         store |-> IF saving THEN saved.store ELSE st,
         reads |-> IF status = "entropy" THEN 1 ELSE 1 + enc.reads,
         seals |-> IF status = "entropy" THEN <<>> ELSE enc.seals,
         writes |-> IF saving THEN saved.log ELSE {},
         saved |-> IF saving THEN saved.saved ELSE 0,
         file |-> walletJSON,
         mnemonic |-> mnemonic,
         envelope |-> IF status = "entropy" THEN <<>> ELSE <<enc.env>>,
         address |-> IF status = "ok" THEN derived.address ELSE <<>>]

CreateSave(failAt, env) ==
    /\ pc = "create_save"
    /\ rngCount + 3 <= MaxDraws
    /\ LET r == CreateOutcome(store, rngCount, cur.force, cur.outs, cur.password,
                              cur.passphrase, failAt, env)
       IN  /\ store' = r.store
           /\ rngCount' = rngCount + r.reads
           /\ sealLog' = sealLog \o r.seals
           /\ writeLog' = writeLog \cup r.writes
           /\ createLog' = IF r.status = "ok"
                           THEN createLog \cup
                                {[cmd |-> "create", file |-> r.file, address |-> r.address,
                                  password |-> cur.password, passphrase |-> cur.passphrase,
                                  mnemonic |-> r.mnemonic, approved |-> r.address,
                                  saved |-> r.saved]}
                           ELSE createLog
           /\ Finish([NoOut EXCEPT !.cmd = "create", !.status = r.status,
                                   !.address = r.address, !.envelope = r.envelope])
    /\ UNCHANGED <<deriveLog, net, runs, faults, world>>

(***************************************************************************)
(* get                                                                     *)
(***************************************************************************)
\* get_address.go 27-77: load the wallet file
GetStart(d, nameGiven) ==
    /\ pc = "idle"
    /\ runs < MaxRuns
    /\ runs' = runs + 1
    /\ IF IsCloud(d) /\ ~nameGiven
       THEN Finish(Failed("get", "usage"))
       ELSE IF Get(store, d).err # ""
       THEN Finish(Failed("get", "load"))
       ELSE /\ pc' = "get_password"
            /\ cur' = [Idle EXCEPT !.cmd = "get", !.d = d, !.file = Get(store, d).data]
            /\ out' = NoOut
    /\ UNCHANGED <<store, rngCount, sealLog, createLog, writeLog, deriveLog, net, faults, world>>

\* a get that removes the wallet file it cannot decrypt
GetPasswordWiping(password) ==
    /\ pc = "get_password"
    /\ LET dec == DecryptMnemonic(Unmarshal(cur.file).EncryptedMnemonic, password)
       IN  IF dec.err # ""
           THEN /\ Finish([Failed("get", "decrypt") EXCEPT !.file = cur.file,
                                                           !.password = password])
                /\ store' = [store EXCEPT ![cur.d] = NoFile]
           ELSE /\ cur' = [cur EXCEPT !.password = password, !.mnemonic = dec.mnemonic]
                /\ pc' = "get_passphrase"
                /\ out' = out
                /\ store' = store
    /\ UNCHANGED <<rngCount, sealLog, createLog, writeLog, deriveLog, net, runs, faults, world>>

\* get_address.go 79-94: the AES password, the decryption
GetPassword(password) ==
    /\ pc = "get_password"
    /\ LET dec == DecryptMnemonic(Unmarshal(cur.file).EncryptedMnemonic, password)
       IN  IF dec.err # ""
           THEN Finish([Failed("get", "decrypt") EXCEPT !.file = cur.file,
                                                         !.password = password])
           ELSE /\ cur' = [cur EXCEPT !.password = password, !.mnemonic = dec.mnemonic]
                /\ pc' = "get_passphrase"
                /\ out' = out
    /\ UNCHANGED <<store, rngCount, sealLog, createLog, writeLog, deriveLog, net, runs, faults, world>>

\* get_address.go 103-134: the passphrase dialogue, the derivation, the address
GetPassphrase(line, typed) ==
    /\ pc = "get_passphrase"
    /\ LET passphrase == IF SaysYes(line) THEN typed ELSE NoPassphrase
           derived == getAddressFromMnemonicStd(cur.mnemonic, passphrase)
           wallet == Unmarshal(cur.file)
       IN  IF derived.err # ""
           THEN /\ Finish(Failed("get", "address"))
                /\ deriveLog' = deriveLog
           ELSE /\ Finish([cmd |-> "get", status |-> "ok", address |-> derived.address,
                           file |-> cur.file, password |-> cur.password,
                           passphrase |-> passphrase, path |-> derived.path,
                           envelope |-> <<>>, dest |-> ""])
                /\ deriveLog' = deriveLog \cup
                                {[flow |-> "get", stored |-> wallet.DerivationPath,
                                  hd |-> wallet.HDPath, used |-> derived.path]}
    /\ UNCHANGED <<store, rngCount, sealLog, createLog, writeLog, net, runs, faults, world>>

(***************************************************************************)
(* The storage is not under the program's control: a wallet file can be    *)
(* edited or damaged between two commands.                                 *)
(***************************************************************************)
TamperFields == {"salt", "nonce", "ciphertext"}

\* one bit of one field of the envelope flipped
Tamper(env, field) ==
    CASE field = "salt" ->
           [env EXCEPT !.Salt = B64Encode([B64Decode(env.Salt) EXCEPT !.x = 1])]
      [] field = "nonce" ->
           [env EXCEPT !.Nonce = B64Encode([B64Decode(env.Nonce) EXCEPT !.x = 1])]
      [] field = "ciphertext" ->
           [env EXCEPT !.Ciphertext = B64Encode([B64Decode(env.Ciphertext) EXCEPT !.x = 1])]

Untouched(env) ==
    /\ B64Decode(env.Salt).x = 0
    /\ B64Decode(env.Nonce).x = 0
    /\ B64Decode(env.Ciphertext).x = 0

\* a stored wallet file gets another derivation_path (or none)
EditWalletFile(d, derivationPath) ==
    /\ pc = "idle"
    /\ faults < MaxFaults
    /\ faults' = faults + 1
    /\ Exists(store, d)
    /\ Unmarshal(store[d]).DerivationPath = DefaultDerivationPathStr
    /\ store' = [store EXCEPT ![d] =
                    Marshal([Unmarshal(store[d]) EXCEPT !.DerivationPath = derivationPath])]
    /\ UNCHANGED <<rngCount, sealLog, createLog, writeLog, deriveLog, net, pc, cur, out, runs, world>>

\* one bit of a stored envelope flips
CorruptFile(d, field) ==
    /\ pc = "idle"
    /\ faults < MaxFaults
    /\ faults' = faults + 1
    /\ Exists(store, d)
    /\ Untouched(Unmarshal(store[d]).EncryptedMnemonic)
    /\ store' = [store EXCEPT ![d] =
                    Marshal([Unmarshal(store[d]) EXCEPT
                               !.EncryptedMnemonic = Tamper(@, field)])]
    /\ UNCHANGED <<rngCount, sealLog, createLog, writeLog, deriveLog, net, pc, cur, out, runs, world>>

(***************************************************************************)
(* The Apple Keychain backend (on darwin).  A file name is the sequence of *)
(* its dot-separated parts: <<"my", "wallet", "json">> is my.wallet.json.  *)
(***************************************************************************)
DEFAULT_CLOUD_FILE_DIR == "/MyWallet"

\* filepath.Join(dir, walletName + ".json")
JoinJson(dir, walletName) == [dir |-> dir, name |-> walletName \o <<"json">>]

\* strings.TrimSuffix(name, filepath.Ext(name)): the last dot and what follows
TrimExt(name) == IF Len(name) > 1 THEN SubSeq(name, 1, Len(name) - 1) ELSE name

\* values of --name; the paths the commands build from them
WalletNames == {<<"w">>, <<"my", "wallet">>, <<"my">>}

KeychainPaths == {JoinJson(DEFAULT_CLOUD_FILE_DIR, n) : n \in WalletNames}

\* the account a path is stored under: filepath.Base without its extension
AccountOf(filePath) == TrimExt(filePath.name)

\* KeychainStorage.Put: items is account -> <<data>> (<<>> when absent);
\* addOK is the outcome of keychain.AddItem
KeychainPut(items, data, filePath, withForce, addOK) ==
    LET walletName == AccountOf(filePath) IN
    IF ~withForce /\ items[walletName] # <<>>
    THEN [items |-> items, err |-> "", exit |-> <<1>>]
    ELSE IF ~addOK
    THEN [items |-> [items EXCEPT ![walletName] = <<>>],
          err |-> "failed to store wallet in keychain", exit |-> <<>>]
    ELSE [items |-> [items EXCEPT ![walletName] = <<data>>], err |-> "", exit |-> <<>>]

\* KeychainStorage.Get
KeychainGet(items, filePath) ==
    LET walletName == AccountOf(filePath) IN
    IF items[walletName] = <<>>
    THEN [data |-> <<>>, err |-> "wallet not found in keychain"]
    ELSE [data |-> items[walletName], err |-> ""]

\* KeychainStorage.List: the Account of every item (as a set: the order of the
\* slice is the keychain's)
KeychainList(items) == {a \in DOMAIN items : items[a] # <<>>}

\* util.List: the backend's list, each entry through filepath.Base and
\* TrimSuffix(name, filepath.Ext(name))
ListWallets(items) == {TrimExt(file) : file \in KeychainList(items)}

\* keychain: the generic-password items of service ltd.wrb.eth-cli-vault
\* lastPut: history, the bytes of the last successful Put to each path
\* registrations: HandleFunc calls on http.DefaultServeMux in the running
\*   process, per pattern
\* auth: the authorization in flight; ops: storage operations the running
\*   process has started; exchanged: history, one entry per Exchange call
NoAuth == [provider |-> "", state |-> <<>>, code |-> "", via |-> <<>>]

NoWorld ==
    [keychain |-> [a \in {AccountOf(f) : f \in KeychainPaths} |-> <<>>],
     lastPut |-> [f \in KeychainPaths |-> <<>>],
     registrations |-> [pattern \in {"/", "/box-callback"} |-> 0],
     auth |-> NoAuth, ops |-> 0, exchanged |-> {}]

(***************************************************************************)
(* The specification.                                                      *)
(***************************************************************************)
Init ==
    /\ store = [d \in Dests |-> NoFile]
    /\ rngCount = 0
    /\ sealLog = <<>>
    /\ createLog = {}
    /\ writeLog = {}
    /\ deriveLog = {}
    /\ net = {}
    /\ pc = "idle"
    /\ cur = Idle
    /\ out = NoOut
    /\ runs = 0
    /\ faults = 0
    /\ world = NoWorld

Next ==
    \/ \E force \in BOOLEAN, outs \in OutputChoices, given \in BOOLEAN,
          skipPrompt \in BOOLEAN :
            CreateStart(force, outs, given, given, skipPrompt)
    \/ \E password \in Passwords, confirm \in Passwords : EnterPassword(password, confirm)
    \/ \E line \in AnswerLines, typed \in Passphrases, confirm \in Passphrases :
            CreatePassphrase(line, typed, confirm)
    \/ \E failAt \in 0..3, env \in PutEnvsOf(cur.outs) : CreateSave(failAt, env)
    \/ \E d \in Dests, nameGiven \in BOOLEAN : GetStart(d, nameGiven)
    \/ \E password \in Passwords : GetPassword(password)
    \/ \E line \in AnswerLines, typed \in Passphrases : GetPassphrase(line, typed)
    \/ \E d \in Dests, dp \in {OtherDerivationPathStr, ""} : EditWalletFile(d, dp)
    \/ \E d \in Dests, field \in TamperFields : CorruptFile(d, field)

Spec == Init /\ [][Next]_vars

\* sessions that keep the wallet in one local file (--output fs --path ...)
NextLocal ==
    \/ \E force \in BOOLEAN, outs \in {<<>>, <<"fs">>}, given \in BOOLEAN,
          skipPrompt \in BOOLEAN :
            CreateStart(force, outs, given, given, skipPrompt)
    \/ \E password \in Passwords, confirm \in Passwords : EnterPassword(password, confirm)
    \/ \E line \in AnswerLines, typed \in Passphrases, confirm \in Passphrases :
            CreatePassphrase(line, typed, confirm)
    \/ \E failAt \in 0..3, env \in PutEnvsOf(cur.outs) : CreateSave(failAt, env)
    \/ \E nameGiven \in BOOLEAN : GetStart(LocalPath, nameGiven)
    \/ \E password \in Passwords : GetPassword(password)
    \/ \E line \in AnswerLines, typed \in Passphrases : GetPassphrase(line, typed)
    \/ \E dp \in {OtherDerivationPathStr, ""} : EditWalletFile(LocalPath, dp)
    \/ \E field \in TamperFields : CorruptFile(LocalPath, field)

SpecLocal == Init /\ [][NextLocal]_vars

(***************************************************************************)
(* create-special: the vanity search.                                      *)
(***************************************************************************)
\* --pattern values of the model; "^0x(" is not a regular expression
Patterns == {"", "^0x(", "^0x1", "^0x[01]"}

\* a compiler that accepts every pattern
CompileAny(pattern) == TRUE

\* regexp.Compile
CompileOK(pattern) == pattern # "^0x("

\* regex.MatchString on an address: the patterns of the model look at its first digit
MatchString(pattern, address) ==
    CASE pattern = "^0x1" -> address.nib = 1
      [] pattern = "^0x[01]" -> address.nib \in {0, 1}
      [] OTHER -> FALSE

\* strings.TrimSpace(strings.ToLower(line)) of a line read with ReadString
TrimLower(line) == [i \in 1..Len(line) |-> ToLower(line[i])]

\* an approval prompt that takes every answer for a yes
DeclinesNever(line) == FALSE

\* create_special.go 183-187: only "n" or "no" turns the address down
Declines(line) == TrimLower(line) = <<"n">> \/ TrimLower(line) = <<"no">>

\* a search that gives up after two candidates
LoopCapped(attempts) == attempts < 2

\* create_special.go 131: `for {`, a loop without a condition
LoopContinues(attempts) == TRUE

\* one iteration of a search that takes the first candidate without testing it
VanityStepUntested(rng, pattern, fails) ==
    LET entropy == RandRead(rng + 1, EntropyBits \div 8, fails)
        tempMnemonic == NewMnemonic(entropy.bytes)
        derived == getAddressFromMnemonic(tempMnemonic, NoPassphrase, DefaultDerivationPathStr)
        found == entropy.ok /\ derived.err = ""
    IN  [found |-> found,
         entropyErr |-> ~entropy.ok,
         mnemonic |-> IF found THEN tempMnemonic ELSE <<>>,
         address |-> IF found THEN derived.address ELSE <<>>]

\* create_special.go 131-162: one iteration of the search loop
VanityStep(rng, pattern, fails) ==
    LET entropy == RandRead(rng + 1, EntropyBits \div 8, fails)
        tempMnemonic == NewMnemonic(entropy.bytes)
        derived == getAddressFromMnemonic(tempMnemonic, NoPassphrase, DefaultDerivationPathStr)
        found == /\ entropy.ok
                 /\ derived.err = ""
                 /\ MatchString(pattern, derived.address[1])
    IN  [found |-> found,
         entropyErr |-> ~entropy.ok,
         mnemonic |-> IF found THEN tempMnemonic ELSE <<>>,
         address |-> IF found THEN derived.address ELSE <<>>]

\* create_special.go 41-119: flags, pattern, output locations, existing local files
SpecialStart(force, outs, pathGiven, nameGiven, pattern) ==
    /\ pc = "idle"
    /\ runs < MaxRuns
    /\ runs' = runs + 1
    /\ IF pattern = "" \/ outs = <<>>
       THEN Finish(Failed("create-special", "usage"))
       ELSE IF ~CompileOK(pattern)
       THEN Finish(Failed("create-special", "pattern"))
       ELSE IF UsageError(outs, pathGiven, nameGiven)
       THEN Finish(Failed("create-special", "usage"))
       ELSE IF ~force /\ \E d \in LocalDests(outs) : Exists(store, d)
       THEN Finish(Failed("create-special", "exists"))
       ELSE /\ pc' = "special_search"
            /\ cur' = [Idle EXCEPT !.cmd = "create-special", !.force = force,
                                   !.outs = outs, !.pattern = pattern]
            /\ out' = NoOut
    /\ UNCHANGED <<store, rngCount, sealLog, createLog, writeLog, deriveLog, net, faults, world>>

\* the loop body; the loop is left only by the break on a match, and an error
\* of the entropy source or of the derivation goes on to the next iteration
SearchStep(fails) ==
    /\ pc = "special_search"
    /\ cur.attempts < MaxAttempts
    /\ rngCount + 1 <= MaxDraws
    /\ IF ~LoopContinues(cur.attempts)
       THEN /\ Finish(Failed("create-special", "gave_up"))
            /\ rngCount' = rngCount
       ELSE LET r == VanityStep(rngCount, cur.pattern, fails)
            IN  /\ rngCount' = rngCount + 1
                /\ cur' = [cur EXCEPT !.attempts = @ + 1, !.mnemonic = r.mnemonic,
                                      !.address = r.address,
                                      !.entropyErr = @ \/ r.entropyErr]
                /\ pc' = IF r.found THEN "special_approve" ELSE "special_search"
                /\ out' = out
    /\ UNCHANGED <<store, sealLog, createLog, writeLog, deriveLog, net, runs, faults, world>>

\* create_special.go 173-187: the found address is shown and the answer read
Approve(line) ==
    /\ pc = "special_approve"
    /\ IF Declines(line)
       THEN Finish(Failed("create-special", "cancelled"))
       ELSE /\ pc' = "special_password"
            /\ cur' = [cur EXCEPT !.approval = <<line>>]
            /\ out' = out
    /\ UNCHANGED <<store, rngCount, sealLog, createLog, writeLog, deriveLog, net, runs, faults, world>>

\* create_special.go 222-284: final address, envelope, wallet file, the Puts
SpecialOutcome(st, rng, force, outs, password, mnemonic, failAt, env) ==
    LET passphrase == NoPassphrase
        final == getAddressFromMnemonic(mnemonic, passphrase, DefaultDerivationPathStr)
        enc == EncryptMnemonic(mnemonic, password,
                   <<RandRead(rng + 1, SaltLen, failAt = 2),
                     RandRead(rng + 2, NonceSize, failAt = 3)>>)
        wallet == WalletFile(enc.env, DefaultHDPathStr, DefaultDerivationPathStr)
        walletJSON == Marshal(wallet)
        saved == SaveAll(st, SaveOrder(outs), walletJSON, force, env)
        status ==
            CASE final.err # "" -> "address"
              [] enc.err # "" -> "encrypt"
              [] saved.exited -> "put_exit"
              [] OTHER -> "ok"
        saving == status \in {"put_exit", "ok"}
    IN  [status |-> status,
         store |-> IF saving THEN saved.store ELSE st,
         reads |-> IF status = "address" THEN 0 ELSE enc.reads,
         seals |-> IF status = "address" THEN <<>> ELSE enc.seals,
         writes |-> IF saving THEN saved.log ELSE {},
         saved |-> IF saving THEN saved.saved ELSE 0,
         file |-> walletJSON,
         passphrase |-> passphrase,
         envelope |-> IF status = "address" THEN <<>> ELSE <<enc.env>>,
         address |-> IF status = "ok" THEN final.address ELSE <<>>]

SpecialSave(failAt, env) ==
    /\ pc = "special_save"
    /\ rngCount + 2 <= MaxDraws
    /\ LET r == SpecialOutcome(store, rngCount, cur.force, cur.outs, cur.password,
                               cur.mnemonic, failAt, env)
       IN  /\ store' = r.store
           /\ rngCount' = rngCount + r.reads
           /\ sealLog' = sealLog \o r.seals
           /\ writeLog' = writeLog \cup r.writes
           /\ createLog' = IF r.status = "ok"
                           THEN createLog \cup
                                {[cmd |-> "create-special", file |-> r.file,
                                  address |-> r.address, password |-> cur.password,
                                  passphrase |-> r.passphrase, mnemonic |-> cur.mnemonic,
                                  approved |-> cur.address, saved |-> r.saved]}
                           ELSE createLog
           /\ Finish([NoOut EXCEPT !.cmd = "create-special", !.status = r.status,
                                   !.address = r.address, !.envelope = r.envelope])
    /\ UNCHANGED <<deriveLog, net, runs, faults, world>>

\* main.go 89-97: Ctrl+C ends the process wherever the command stands
Interrupt ==
    /\ pc # "idle"
    /\ Finish(Failed(cur.cmd, "interrupted"))
    /\ UNCHANGED <<store, rngCount, sealLog, createLog, writeLog, deriveLog, net, runs, faults, world>>

NextSpecial ==
    \/ \E force \in BOOLEAN, outs \in OutputChoices, given \in BOOLEAN,
          pattern \in Patterns :
            SpecialStart(force, outs, given, given, pattern)
    \/ \E fails \in BOOLEAN : SearchStep(fails)
    \/ \E line \in AnswerLines : Approve(line)
    \/ \E password \in Passwords, confirm \in Passwords : EnterPassword(password, confirm)
    \/ \E failAt \in {0, 2, 3}, env \in PutEnvsOf(cur.outs) : SpecialSave(failAt, env)
    \/ Interrupt

SpecSpecial == Init /\ [][NextSpecial]_vars

\* sessions that make wallets, with create and with create-special, in one
\* local file
NextCreate ==
    \/ \E force \in BOOLEAN, skipPrompt \in BOOLEAN :
            CreateStart(force, <<"fs">>, TRUE, TRUE, skipPrompt)
    \/ \E password \in Passwords, confirm \in Passwords : EnterPassword(password, confirm)
    \/ \E line \in AnswerLines, typed \in Passphrases \cup {PassLower},
          confirm \in Passphrases \cup {PassLower} :
            CreatePassphrase(line, typed, confirm)
    \/ \E failAt \in 0..3, env \in PutEnvsOf(cur.outs) : CreateSave(failAt, env)
    \/ \E force \in BOOLEAN, pattern \in Patterns :
            SpecialStart(force, <<"fs">>, TRUE, TRUE, pattern)
    \/ \E fails \in BOOLEAN : SearchStep(fails)
    \/ \E line \in AnswerLines : Approve(line)
    \/ \E failAt \in {0, 2, 3}, env \in PutEnvsOf(cur.outs) : SpecialSave(failAt, env)

SpecCreate == Init /\ [][NextCreate]_vars

\* the search with a working entropy source; the loop runs on its own, without
\* waiting for the terminal, so an iteration that can run does run
NextSearch ==
    \/ \E force \in BOOLEAN, outs \in OutputChoices, given \in BOOLEAN,
          pattern \in Patterns :
            SpecialStart(force, outs, given, given, pattern)
    \/ SearchStep(FALSE)
    \/ \E line \in AnswerLines : Approve(line)
    \/ Interrupt

SpecSearch == Init /\ [][NextSearch]_vars /\ WF_vars(SearchStep(FALSE))

(***************************************************************************)
(* transfer and sign-raw-tx: decrypt, derive, sign, confirm, broadcast.    *)
(***************************************************************************)
\* strings.EqualFold on the answers of the model
EqualFold(a, b) == ToLower(a) = ToLower(b)

\* transfer_eth.go 229-240: the transaction goes on to the broadcast when --yes
\* was given or the scanned answer is y / Y
Confirmed(autoConfirm, response) == autoConfirm \/ EqualFold(response, "y")

\* a command that forgets --dry-run
ReturnsOnEstimateOnly(estimateOnly, dryRun) == estimateOnly

\* transfer_eth.go 201-219: the command returns before signing
ReturnsBeforeSigning(estimateOnly, dryRun) == estimateOnly \/ dryRun

\* the raw transactions of the model: built by the transfer command from the
\* sender's address, or given to sign-raw-tx (well-formed or not)
\* a raw transaction string: hex (it is hexadecimal), valid (its bytes decode as
\* a transaction), signable (of a type the London signer signs)
CreateEthTransferTx(fromAddress) ==
    [hex |-> TRUE, valid |-> TRUE, signable |-> TRUE, from |-> fromAddress]
RawTxInputs ==
    {[hex |-> TRUE, valid |-> TRUE, signable |-> TRUE, from |-> <<>>],
     [hex |-> TRUE, valid |-> TRUE, signable |-> FALSE, from |-> <<>>],
     [hex |-> TRUE, valid |-> FALSE, signable |-> FALSE, from |-> <<>>],
     [hex |-> FALSE, valid |-> FALSE, signable |-> FALSE, from |-> <<>>]}

\* crypto.HexToECDSA: the empty string is no private key
HexToECDSAOK(privateKeyHex) == privateKeyHex # <<>>

\* a signer that hands back what it has next to the error
SignTransactionPartial(rawTx, privateKey) ==
    [tx |-> <<[raw |-> rawTx, sig |-> [key |-> privateKey, raw |-> rawTx]]>>,
     err |-> IF rawTx.hex /\ rawTx.valid /\ HexToECDSAOK(privateKey) /\ rawTx.signable
             THEN "" ELSE "sign transaction failed"]

\* util.SignTransaction: hex decoding, UnmarshalBinary, HexToECDSA, SignTx; the
\* empty string next to the error of the first step that fails
SignTransaction(rawTx, privateKey) ==
    IF ~rawTx.hex
    THEN [tx |-> <<>>, err |-> "decode raw transaction failed"]
    ELSE IF ~rawTx.valid
    THEN [tx |-> <<>>, err |-> "unmarshal transaction failed"]
    ELSE IF ~HexToECDSAOK(privateKey)
    THEN [tx |-> <<>>, err |-> "invalid private key"]
    ELSE IF ~rawTx.signable
    THEN [tx |-> <<>>, err |-> "sign transaction failed"]
    ELSE [tx |-> <<[raw |-> rawTx, sig |-> [key |-> privateKey, raw |-> rawTx]]>>,
          err |-> ""]

\* util.BroadcastTransaction: the one place where a transaction reaches the
\* node; the entry keeps the flags and the answer of the command that sent it
BroadcastTransaction(sent, signedTx, c, answer, sendOK) ==
    IF sendOK
    THEN sent \cup {[tx |-> signedTx, cmd |-> c.cmd, dryRun |-> c.dryRun,
                     estimateOnly |-> c.estimateOnly, autoConfirm |-> c.autoConfirm,
                     broadcast |-> c.broadcast, key |-> c.privateKey, answer |-> answer]}
    ELSE sent

TxCmds == {"transfer", "sign-raw-tx"}

\* time.Sleep(2 * time.Second) between two receipt queries
RetrySeconds == 2

\* what follows util.BroadcastTransaction: its error ends the command; with
\* --sync (transfer only) the command goes on to wait for the receipt
AfterBroadcast(c, sendOK, sync) ==
    IF sendOK /\ c.cmd = "transfer" /\ sync
    THEN /\ pc' = "tx_wait"
         /\ cur' = [c EXCEPT !.polls = 0, !.slept = 0]
         /\ out' = Failed(c.cmd, "submitted")
    ELSE Finish(Failed(c.cmd, IF sendOK THEN "submitted" ELSE "send"))

\* transfer_eth.go 53-123, sign_tx.go 33-101: flags, RPC configuration, the wallet file
TxStart(cmd, d, dryRun, estimateOnly, autoConfirm, broadcast, rawTx, rpcOK) ==
    /\ pc = "idle"
    /\ runs < MaxRuns
    /\ runs' = runs + 1
    /\ cmd = "transfer" => ~broadcast /\ rawTx = CreateEthTransferTx(<<>>)
    /\ cmd = "sign-raw-tx" => ~dryRun /\ ~estimateOnly /\ ~autoConfirm
    /\ LET needRPC == IF cmd = "transfer" THEN ~dryRun ELSE broadcast
       IN  IF needRPC /\ ~rpcOK
           THEN Finish(Failed(cmd, "config"))
           ELSE IF Get(store, d).err # ""
           THEN Finish(Failed(cmd, "load"))
           ELSE /\ pc' = "tx_password"
                /\ cur' = [Idle EXCEPT !.cmd = cmd, !.d = d, !.file = Get(store, d).data,
                                       !.dryRun = dryRun, !.estimateOnly = estimateOnly,
                                       !.autoConfirm = autoConfirm, !.broadcast = broadcast,
                                       !.signedTx = <<rawTx>>]
                /\ out' = NoOut
    /\ UNCHANGED <<store, rngCount, sealLog, createLog, writeLog, deriveLog, net, faults, world>>

\* processWalletData 83-103: the AES password, the decryption
TxPassword(password) ==
    /\ pc = "tx_password"
    /\ LET dec == DecryptMnemonic(Unmarshal(cur.file).EncryptedMnemonic, password)
       IN  IF dec.err # ""
           THEN Finish(Failed(cur.cmd, "decrypt"))
           ELSE /\ cur' = [cur EXCEPT !.password = password, !.mnemonic = dec.mnemonic]
                /\ pc' = IF cur.cmd = "sign-message" THEN "msg_passphrase"
                         ELSE "tx_passphrase"
                /\ out' = out
    /\ UNCHANGED <<store, rngCount, sealLog, createLog, writeLog, deriveLog, net, runs, faults, world>>

\* processWalletData 105-138: the passphrase, the stored path, the key
processWalletData(wallet, mnemonic, line, typed) ==
    LET passphrase == IF SaysYes(line) THEN typed ELSE NoPassphrase
        derivationPath == IF wallet.DerivationPath # "" THEN wallet.DerivationPath
                          ELSE IF wallet.HDPath # "" THEN wallet.HDPath
                          ELSE ""
    IN  getAddressFromMnemonic(mnemonic, passphrase, derivationPath)

\* the rest of the command once the key is known: transfer_eth.go 131-249,
\* sign_tx.go 106-191
TxPassphrase(line, typed, nodeOK, sendOK, sync) ==
    /\ pc = "tx_passphrase"
    /\ LET wallet == Unmarshal(cur.file)
           derived == processWalletData(wallet, cur.mnemonic, line, typed)
           rawTx == IF cur.cmd = "transfer"
                    THEN CreateEthTransferTx(derived.address)
                    ELSE cur.signedTx[1]
           signed == SignTransaction(rawTx, derived.privateKey)
           c == [cur EXCEPT !.privateKey = derived.privateKey]
           entry == [flow |-> cur.cmd, stored |-> wallet.DerivationPath,
                     hd |-> wallet.HDPath, used |-> derived.path]
       IN  IF derived.err # ""
           THEN /\ Finish(Failed(cur.cmd, "key"))
                /\ UNCHANGED <<deriveLog, net>>
           ELSE /\ deriveLog' = deriveLog \cup {entry}
                /\ IF cur.cmd = "transfer" /\ ~cur.dryRun /\ ~nodeOK
                   THEN Finish(Failed(cur.cmd, "node")) /\ net' = net
                   ELSE IF cur.cmd = "transfer"
                           /\ ReturnsBeforeSigning(cur.estimateOnly, cur.dryRun)
                   THEN /\ Finish(Failed(cur.cmd,
                                  IF cur.estimateOnly THEN "estimated" ELSE "dry_run"))
                        /\ net' = net
                   ELSE IF signed.err # ""
                   THEN Finish(Failed(cur.cmd, "sign")) /\ net' = net
                   ELSE IF cur.cmd = "sign-raw-tx" /\ ~cur.broadcast
                   THEN Finish(Failed(cur.cmd, "signed")) /\ net' = net
                   ELSE IF cur.cmd = "transfer" /\ cur.autoConfirm
                   THEN /\ net' = BroadcastTransaction(net, signed.tx, c, <<>>, sendOK)
                        /\ AfterBroadcast(c, sendOK, sync)
                   ELSE /\ pc' = "tx_confirm"
                        /\ cur' = [c EXCEPT !.signedTx = signed.tx]
                        /\ out' = out
                        /\ net' = net
    /\ UNCHANGED <<store, rngCount, sealLog, createLog, writeLog, runs, faults, world>>

\* the confirmation prompt: fmt.Scanln(&response), then the broadcast
TxConfirm(line, sendOK, sync) ==
    /\ pc = "tx_confirm"
    /\ LET response == Scanln(line)
       IN  IF ~Confirmed(cur.autoConfirm, response)
           THEN Finish(Failed(cur.cmd, "cancelled")) /\ net' = net
           ELSE /\ net' = BroadcastTransaction(net, cur.signedTx, cur, <<line>>, sendOK)
                /\ AfterBroadcast(cur, sendOK, sync)
    /\ UNCHANGED <<store, rngCount, sealLog, createLog, writeLog, deriveLog, runs, faults, world>>

\* answers of client.TransactionReceipt: a receipt (status 1 or 0), the error
\* "not found", another error
ReceiptAnswers == {"receipt status 1", "receipt status 0", "not found", "connection refused"}

ReceiptLoopTimesOut(polls) == polls < 2

\* the for loop has no condition: a "not found" answer always leads to the
\* next query
ReceiptLoopContinues(polls) == TRUE

\* one client.TransactionReceipt call of the wait loop and what follows it
ReceiptQuery(answer) ==
    /\ pc = "tx_wait"
    /\ answer = "not found" => cur.polls < MaxPolls
    /\ IF answer = "receipt status 1"
       THEN Finish(Failed(cur.cmd, "confirmed"))
       ELSE IF answer = "receipt status 0"
       THEN Finish(Failed(cur.cmd, "reverted"))
       ELSE IF answer # "not found"
       THEN Finish(Failed(cur.cmd, "receipt"))
       ELSE IF ~ReceiptLoopContinues(cur.polls)
       THEN Finish(Failed(cur.cmd, "timeout"))
       ELSE /\ pc' = pc
            /\ out' = out
            /\ cur' = [cur EXCEPT !.polls = @ + 1, !.slept = @ + RetrySeconds]
    /\ UNCHANGED <<store, rngCount, sealLog, createLog, writeLog, deriveLog, net, runs, faults,
                   world>>

(***************************************************************************)
(* sign-message                                                            *)
(***************************************************************************)
\* --data values of the model ("" when neither --data nor --data-file is given)
\* strings.HasPrefix(message, "0x")
HasPrefix0x(message) == message \in {"0xab", "0xzz"}

\* hex.DecodeString(strings.TrimPrefix(message, "0x"))
HexDecodeOK(message) == message \in {"ab", "0xab"}

\* util.SignMessage: the key, the form of a hex message, the signature
SignMessage(message, privateKey, hexMessage) ==
    IF ~HexToECDSAOK(privateKey)
    THEN [sig |-> <<>>, err |-> "invalid private key"]
    ELSE IF hexMessage /\ ~HasPrefix0x(message)
    THEN [sig |-> <<>>, err |-> "hex message must start with 0x"]
    ELSE IF hexMessage /\ ~HexDecodeOK(message)
    THEN [sig |-> <<>>, err |-> "invalid hex message"]
    ELSE [sig |-> <<[key |-> privateKey, msg |-> message, hex |-> hexMessage]>>, err |-> ""]

\* runSignMessage 434-492: the flags, then the wallet file is loaded
MsgStart(d, isHex, message) ==
    /\ pc = "idle"
    /\ runs < MaxRuns
    /\ runs' = runs + 1
    /\ IF message = ""
       THEN Finish(Failed("sign-message", "usage"))
       ELSE IF Get(store, d).err # ""
       THEN Finish(Failed("sign-message", "load"))
       ELSE /\ pc' = "tx_password"
            /\ cur' = [Idle EXCEPT !.cmd = "sign-message", !.d = d,
                                   !.file = Get(store, d).data, !.hex = isHex,
                                   !.message = message]
            /\ out' = NoOut
    /\ UNCHANGED <<store, rngCount, sealLog, createLog, writeLog, deriveLog, net, faults, world>>

\* processWalletData 105-138, then runSignMessage 494-510: the key, the check of
\* the hex message, the signature
MsgPassphrase(line, typed) ==
    /\ pc = "msg_passphrase"
    /\ LET wallet == Unmarshal(cur.file)
           derived == processWalletData(wallet, cur.mnemonic, line, typed)
           signed == SignMessage(cur.message, derived.privateKey, cur.hex)
           entry == [flow |-> cur.cmd, stored |-> wallet.DerivationPath,
                     hd |-> wallet.HDPath, used |-> derived.path]
       IN  IF derived.err # ""
           THEN /\ Finish(Failed(cur.cmd, "key"))
                /\ deriveLog' = deriveLog
           ELSE /\ deriveLog' = deriveLog \cup {entry}
                /\ IF cur.hex /\ ~HasPrefix0x(cur.message)
                   THEN Finish(Failed(cur.cmd, "hex_prefix"))
                   ELSE IF signed.err # ""
                   THEN Finish(Failed(cur.cmd, "sign"))
                   ELSE Finish([Failed(cur.cmd, "signed") EXCEPT
                                   !.address = derived.address])
    /\ UNCHANGED <<store, rngCount, sealLog, createLog, writeLog, net, runs, faults, world>>

\* a session that starts after one create has saved a wallet to a local file
Created ==
    CreateOutcome([d \in Dests |-> NoFile], 0, FALSE, <<"fs">>, PwA, NoPassphrase,
                  0, [d \in Dests |-> "ok"])

InitTx ==
    /\ store = Created.store
    /\ rngCount = Created.reads
    /\ sealLog = Created.seals
    /\ createLog = {[cmd |-> "create", file |-> Created.file, address |-> Created.address,
                     password |-> PwA, passphrase |-> NoPassphrase,
                     mnemonic |-> Created.mnemonic, approved |-> Created.address,
                     saved |-> Created.saved]}
    /\ writeLog = Created.writes
    /\ deriveLog = {}
    /\ net = {}
    /\ pc = "idle"
    /\ cur = Idle
    /\ out = NoOut
    /\ runs = 0
    /\ faults = 0
    /\ world = NoWorld

NextTx ==
    \/ \E cmd \in TxCmds, d \in Dests, dryRun \in BOOLEAN, estimateOnly \in BOOLEAN,
          autoConfirm \in BOOLEAN, broadcast \in BOOLEAN, rawTx \in RawTxInputs,
          rpcOK \in BOOLEAN :
            TxStart(cmd, d, dryRun, estimateOnly, autoConfirm, broadcast, rawTx, rpcOK)
    \/ \E password \in Passwords : TxPassword(password)
    \/ \E line \in AnswerLines, typed \in Passphrases, nodeOK \in BOOLEAN,
          sendOK \in BOOLEAN, sync \in BOOLEAN :
            TxPassphrase(line, typed, nodeOK, sendOK, sync)
    \/ \E line \in AnswerLines, sendOK \in BOOLEAN, sync \in BOOLEAN :
            TxConfirm(line, sendOK, sync)
    \/ \E answer \in ReceiptAnswers : ReceiptQuery(answer)
    \/ \E d \in Dests, dp \in {OtherDerivationPathStr, ""} : EditWalletFile(d, dp)

SpecTx == InitTx /\ [][NextTx]_vars

\* the commands that read a wallet: get, transfer, sign-raw-tx, sign-message
ReadCmds == {"get", "sign-message"} \cup TxCmds

NextRead ==
    \/ \E d \in Dests, nameGiven \in BOOLEAN : GetStart(d, nameGiven)
    \/ \E password \in Passwords : GetPassword(password)
    \/ \E line \in AnswerLines, typed \in Passphrases : GetPassphrase(line, typed)
    \/ \E cmd \in TxCmds, d \in Dests, dryRun \in BOOLEAN, estimateOnly \in BOOLEAN,
          autoConfirm \in BOOLEAN, broadcast \in BOOLEAN, rawTx \in RawTxInputs,
          rpcOK \in BOOLEAN :
            TxStart(cmd, d, dryRun, estimateOnly, autoConfirm, broadcast, rawTx, rpcOK)
    \/ \E password \in Passwords : TxPassword(password)
    \/ \E line \in AnswerLines, typed \in Passphrases, nodeOK \in BOOLEAN,
          sendOK \in BOOLEAN, sync \in BOOLEAN :
            TxPassphrase(line, typed, nodeOK, sendOK, sync)
    \/ \E line \in AnswerLines, sendOK \in BOOLEAN, sync \in BOOLEAN :
            TxConfirm(line, sendOK, sync)
    \/ \E answer \in ReceiptAnswers : ReceiptQuery(answer)
    \/ \E d \in Dests, isHex \in BOOLEAN, message \in {"", "hello", "ab", "0xab", "0xzz"} :
            MsgStart(d, isHex, message)
    \/ \E line \in AnswerLines, typed \in Passphrases : MsgPassphrase(line, typed)
    \/ \E d \in Dests, dp \in {OtherDerivationPathStr, ""} : EditWalletFile(d, dp)

SpecRead == InitTx /\ [][NextRead]_vars

(***************************************************************************)
(* The functions of the core called on their own: the arguments are drawn  *)
(* when the session starts, one call is made and its result is kept.       *)
(***************************************************************************)
\* the mnemonics bip39.NewMnemonic produces: wordlist words encoding the
\* entropy and its checksum (x # 0 marks words whose checksum bits are wrong)
WellFormedMnemonic(mnemonic) ==
    /\ mnemonic = NewMnemonic(mnemonic[2])
    /\ mnemonic[2].x = 0

\* mnemonic arguments: one made by NewMnemonic, the same with its last word
\* replaced by another word of the list (wrong checksum), and a text with a
\* word outside the list
MnemonicInputs ==
    {NewMnemonic([id |-> 1, len |-> EntropyBits \div 8, x |-> 0]),
     <<"bip39", [id |-> 1, len |-> EntropyBits \div 8, x |-> 1]>>,
     <<"text", [id |-> 1, len |-> EntropyBits \div 8, x |-> 0]>>}

\* password arguments: too short, one class missing each, exactly eight
\* characters of all classes, and six characters that take eight bytes
PasswordInputs ==
    {<<"s", "h", "o", "r", "t">>,
     <<"A", "a", "1", "!", "a", "a", "a">>,
     <<"o", "n", "l", "y", "l", "o", "w", "1", "!">>,
     <<"O", "N", "L", "Y", "U", "P", "1", "!">>,
     <<"N", "o", "N", "u", "m", "b", "e", "r", "s", "!">>,
     <<"N", "o", "S", "p", "e", "c", "i", "a", "l", "1", "2", "3">>,
     <<"S", "t", "r", "o", "n", "g", "1", "!">>,
     <<"A", "a", "1", "!", "eacute", "eacute">>}

\* private key arguments: the key of an account, and the empty string
PrivateKeyInputs ==
    {<<>>,
     <<Derive(NewSeed(NewMnemonic([id |-> 1, len |-> EntropyBits \div 8, x |-> 0]),
                      NoPassphrase), DefaultBaseDerivationPath).privateKey>>}

(***************************************************************************)
(* Amounts.  A string is the sequence of its characters; a big.Int is      *)
(* m * 10^e, kept with m free of trailing zeros, so that 10^18 wei is      *)
(* [m |-> 1, e |-> 18].                                                    *)
(***************************************************************************)
RECURSIVE Pow10(_)
Pow10(k) == IF k = 0 THEN 1 ELSE 10 * Pow10(k - 1)

RECURSIVE BigNorm(_)
BigNorm(b) ==
    IF b.m = 0 THEN [m |-> 0, e |-> 0]
    ELSE IF b.m % 10 = 0 THEN BigNorm([m |-> b.m \div 10, e |-> b.e + 1])
    ELSE b

\* x.Mul(a, b)
BigMul(a, b) == BigNorm([m |-> a.m * b.m, e |-> a.e + b.e])

\* x.Add(a, b)
BigAdd(a, b) ==
    LET e == IF a.e < b.e THEN a.e ELSE b.e
    IN  IF a.m = 0 THEN b
        ELSE IF b.m = 0 THEN a
        ELSE BigNorm([m |-> a.m * Pow10(a.e - e) + b.m * Pow10(b.e - e), e |-> e])

\* x.Div(a, 10^k): Euclidean division, the divisor is positive
BigDivPow10(a, k) ==
    IF a.e >= k THEN BigNorm([m |-> a.m, e |-> a.e - k])
    ELSE BigNorm([m |-> a.m \div Pow10(k - a.e), e |-> 0])

\* the decimal digits, each at its value plus one
Digits == <<"0", "1", "2", "3", "4", "5", "6", "7", "8", "9">>

\* the value of a sequence of digits
RECURSIVE DigitsValue(_)
DigitsValue(ds) ==
    IF ds = <<>> THEN [m |-> 0, e |-> 0]
    ELSE IF ds[Len(ds)] = "0"
    THEN BigMul(DigitsValue(SubSeq(ds, 1, Len(ds) - 1)), [m |-> 1, e |-> 1])
    ELSE BigAdd(BigMul(DigitsValue(SubSeq(ds, 1, Len(ds) - 1)), [m |-> 1, e |-> 1]),
                [m |-> (CHOOSE v \in 1..10 : Digits[v] = ds[Len(ds)]) - 1, e |-> 0])

\* big.Int.SetString(str, 10): an optional sign, then at least one digit and
\* nothing but digits
SetString(str) ==
    LET signed == str # <<>> /\ str[1] \in {"+", "-"}
        ds == IF signed THEN Tail(str) ELSE str
    IN  IF ds = <<>> \/ \E i \in 1..Len(ds) : \A v \in 1..10 : Digits[v] # ds[i]
        THEN [ok |-> FALSE, value |-> BigNorm([m |-> 0, e |-> 0])]
        ELSE [ok |-> TRUE,
              value |-> IF signed /\ str[1] = "-"
                        THEN BigMul(BigNorm([m |-> -1, e |-> 0]), DigitsValue(ds))
                        ELSE DigitsValue(ds)]

\* strings.TrimSpace
RECURSIVE TrimSpace(_)
TrimSpace(str) ==
    IF str = <<>> THEN str
    ELSE IF str[1] = " " THEN TrimSpace(Tail(str))
    ELSE IF str[Len(str)] = " " THEN TrimSpace(SubSeq(str, 1, Len(str) - 1))
    ELSE str

\* strings.ToLower, on the letters of the units
ToLowerChars(str) ==
    [i \in 1..Len(str) |->
        CASE str[i] = "E" -> "e" [] str[i] = "T" -> "t" [] str[i] = "H" -> "h"
          [] str[i] = "G" -> "g" [] str[i] = "W" -> "w" [] str[i] = "I" -> "i"
          [] OTHER -> str[i]]

\* strings.HasSuffix
HasSuffix(str, suffix) ==
    /\ Len(str) >= Len(suffix)
    /\ SubSeq(str, Len(str) - Len(suffix) + 1, Len(str)) = suffix

\* strings.Split(str, "."): the parts between the dots
RECURSIVE SplitDot(_)
SplitDot(str) ==
    IF \A i \in 1..Len(str) : str[i] # "."
    THEN <<str>>
    ELSE LET i == CHOOSE k \in 1..Len(str) :
                      str[k] = "." /\ \A j \in 1..(k - 1) : str[j] # "."
         IN  <<SubSeq(str, 1, i - 1)>> \o SplitDot(SubSeq(str, i + 1, Len(str)))

\* the units in the order the loop tries them
Units == << <<"e", "t", "h">>, <<"g", "w", "e", "i">>, <<"w", "e", "i">> >>

\* cmd.parseEthAmount
parseEthAmount(amountStr) ==
    LET amount == TrimSpace(amountStr)
        lowerAmount == ToLowerChars(amount)
        found == {i \in 1..Len(Units) : HasSuffix(lowerAmount, Units[i])}
        u == IF found = {} THEN 3 ELSE CHOOSE i \in found : \A j \in found : i <= j
        value == IF found = {} THEN amount
                 ELSE TrimSpace(SubSeq(amount, 1, Len(amount) - Len(Units[u])))
        parts == SplitDot(value)
        intPart == IF parts[1] = <<>> THEN <<"0">> ELSE parts[1]
        intVal == SetString(intPart)
        multiplier == [m |-> 1, e |-> IF u = 1 THEN 18 ELSE IF u = 2 THEN 9 ELSE 0]
        whole == BigMul(intVal.value, multiplier)
        hasDecimal == Len(parts) = 2 /\ parts[2] # <<>>
        decimalVal == SetString(parts[2])
        decimalContribution == BigDivPow10(BigMul(decimalVal.value, multiplier),
                                           Len(parts[2]))
        result == IF hasDecimal THEN BigAdd(whole, decimalContribution) ELSE whole
    IN  IF amount = <<>> THEN [value |-> <<>>, err |-> "amount cannot be empty"]
        ELSE IF Len(parts) > 2 THEN [value |-> <<>>, err |-> "invalid amount format"]
        ELSE IF ~intVal.ok THEN [value |-> <<>>, err |-> "invalid integer part"]
        ELSE IF hasDecimal /\ ~decimalVal.ok THEN [value |-> <<>>, err |-> "invalid decimal part"]
        ELSE IF result.m < 0 THEN [value |-> <<>>, err |-> "amount cannot be negative"]
        ELSE [value |-> <<result>>, err |-> ""]

\* util.ParseTokenAmount
ParseTokenAmount(amountText, decimals) ==
    LET amountStr == TrimSpace(amountText)
        parts == SplitDot(amountStr)
        intPart == IF parts[1] = <<>> THEN <<"0">> ELSE parts[1]
        intVal == SetString(intPart)
        multiplier == [m |-> 1, e |-> decimals]
        whole == BigMul(intVal.value, multiplier)
        hasDecimal == Len(parts) = 2 /\ parts[2] # <<>>
        decimalPart == IF Len(parts[2]) > decimals THEN SubSeq(parts[2], 1, decimals)
                       ELSE parts[2] \o [i \in 1..(decimals - Len(parts[2])) |-> "0"]
        decimalVal == SetString(decimalPart)
        result == IF hasDecimal THEN BigAdd(whole, decimalVal.value) ELSE whole
    IN  IF amountStr = <<>> THEN [value |-> <<>>, err |-> "amount cannot be empty"]
        ELSE IF Len(parts) > 2 THEN [value |-> <<>>, err |-> "invalid amount format"]
        ELSE IF ~intVal.ok THEN [value |-> <<>>, err |-> "invalid integer part"]
        ELSE IF hasDecimal /\ ~decimalVal.ok THEN [value |-> <<>>, err |-> "invalid decimal part"]
        ELSE IF result.m < 0 THEN [value |-> <<>>, err |-> "amount cannot be negative"]
        ELSE [value |-> <<result>>, err |-> ""]

\* amounts given with --amount
AmountInputs ==
    {<<>>,
     <<"1", "e", "t", "h">>,
     <<"0", ".", "5", "E", "T", "H">>,
     <<"1", "0", "g", "w", "e", "i">>,
     <<"2", "5">>,
     <<"1", ".", "5">>,
     <<".", "5">>,
     <<"-", "1">>,
     <<"-", "1", ".", "5", "e", "t", "h">>,
     <<"-", "0", ".", "5", "e", "t", "h">>,
     <<"-", "0", ".", "5">>,
     <<"-", "1", ".", "5">>,
     <<"-", ".", "5">>,
     <<"1", ".", "2", ".", "3">>,
     <<"x", "e", "t", "h">>,
     <<" ", "2", " ", "w", "e", "i">>}

\* the string is a minus sign and a number other than zero
DenotesNegative(amountStr) ==
    LET str == TrimSpace(amountStr) IN
    /\ str # <<>>
    /\ str[1] = "-"
    /\ \E i \in 2..Len(str) : \E v \in 2..10 : Digits[v] = str[i]
    /\ \A i \in 2..Len(str) :
           \/ \E v \in 1..10 : Digits[v] = str[i]
           \/ str[i] \in {".", "e", "t", "h"}

\* --output values given to create: none, the local file system, a directory
\* (any value but "fs" is taken as a list of cloud providers)
InitCore ==
    /\ store = [d \in Dests |-> NoFile]
    /\ rngCount = 0
    /\ sealLog = <<>>
    /\ createLog = {}
    /\ writeLog = {}
    /\ deriveLog = {}
    /\ net = {}
    /\ pc = "call"
    /\ \/ \E mnemonic \in MnemonicInputs, passphrase \in Passphrases,
             derivationPath \in {"", DefaultDerivationPathStr, DefaultHDPathStr,
                                OtherDerivationPathStr, "m/x"}, rawTx \in RawTxInputs,
             privateKey \in PrivateKeyInputs, password \in PasswordInputs :
               cur = [Idle EXCEPT !.mnemonic = mnemonic, !.passphrase = passphrase,
                                  !.password = password,
                                  !.derivationPath = derivationPath,
                                  !.signedTx = <<rawTx>>, !.privateKey = privateKey]
       \/ \E outs \in {<<>>, <<"fs">>, <<"/tmp/wallets">>}, pathGiven \in BOOLEAN, nameGiven \in BOOLEAN :
               cur = [Idle EXCEPT !.cmd = "create", !.outs = outs,
                                  !.args = <<pathGiven, nameGiven>>]
       \/ \E amount \in AmountInputs, decimals \in {0, 6, 18} :
               cur = [Idle EXCEPT !.cmd = "transfer", !.args = <<amount, decimals>>]
    /\ out = NoOut
    /\ runs = 0
    /\ faults = 0
    /\ world = NoWorld

\* the call returns: `result` is what the function gave back
Returned(call, result) ==
    /\ pc = "call"
    /\ pc' = "returned"
    /\ out' = [call |-> call, result |-> result]
    /\ UNCHANGED <<store, rngCount, sealLog, createLog, writeLog, deriveLog, net, cur, runs,
                   faults, world>>

CallGetAddress ==
    /\ cur.cmd = ""
    /\ Returned("getAddressFromMnemonic",
                getAddressFromMnemonic(cur.mnemonic, cur.passphrase, cur.derivationPath))

CallGetAddressStd ==
    /\ cur.cmd = ""
    /\ Returned("getAddressFromMnemonicStd",
                getAddressFromMnemonicStd(cur.mnemonic, cur.passphrase))

CallSignTransaction ==
    /\ cur.cmd = ""
    /\ Returned("SignTransaction", SignTransaction(cur.signedTx[1], cur.privateKey))

CallIsStrongPassword ==
    /\ cur.cmd = ""
    /\ Returned("isStrongPassword", isStrongPassword(cur.password))

CallExecuteCreate ==
    /\ cur.cmd = "create"
    /\ Returned("CreateCmd",
                ExecuteCreateFlags(cur.outs, cur.args[1], cur.args[2]))

CallParseEthAmount ==
    /\ cur.cmd = "transfer"
    /\ Returned("parseEthAmount", parseEthAmount(cur.args[1]))

CallParseTokenAmount ==
    /\ cur.cmd = "transfer"
    /\ Returned("ParseTokenAmount", ParseTokenAmount(cur.args[1], cur.args[2]))

NextCore ==
    \/ CallExecuteCreate
    \/ CallParseEthAmount
    \/ CallParseTokenAmount
    \/ CallGetAddress
    \/ CallGetAddressStd
    \/ CallSignTransaction
    \/ CallIsStrongPassword

SpecCore == InitCore /\ [][NextCore]_vars

(***************************************************************************)
(* copy                                                                    *)
(***************************************************************************)
DestinationUnchecked(st, to, env) == FALSE

\* the check before the write: on a cloud destination the wallet name is in
\* util.List's answer, on a local one os.Stat(destPath) gives no error
DestinationHolds(st, to, env) ==
    IF IsCloud(to) THEN Exists(st, to)
    ELSE Exists(st, to) /\ env # "probe_error"

\* copy --from ... --to ...: the source is read, the destination is checked,
\* then written with withForce = false
\*   listOK: the outcome of util.List on a cloud destination; env: of the Put
CopyCmd(from, to, listOK, env) ==
    /\ pc = "idle"
    /\ runs < MaxRuns
    /\ runs' = runs + 1
    /\ LET src == Get(store, from)
           r == Put(store, to, src.data, FALSE, env)
           entry == [d |-> to, existed |-> Exists(store, to), force |-> FALSE]
           ended(status) == Finish([Failed("copy", status) EXCEPT !.dest = to])
       IN  IF src.err # ""
           THEN ended("load") /\ UNCHANGED <<store, writeLog>>
           ELSE IF IsCloud(to) /\ ~listOK
           THEN ended("list") /\ UNCHANGED <<store, writeLog>>
           ELSE IF DestinationHolds(store, to, env)
           THEN ended("exists") /\ UNCHANGED <<store, writeLog>>
           ELSE /\ store' = r.store
                /\ writeLog' = writeLog \cup (IF r.wrote THEN {entry} ELSE {})
                /\ ended(IF r.status = "ok" THEN "ok"
                         ELSE IF r.status = "exit" THEN "exists" ELSE "put")
    /\ UNCHANGED <<rngCount, sealLog, createLog, deriveLog, net, faults, world>>

\* sessions that start with a wallet in the local file: create to the local
\* file or to the cloud, copy between the two
NextCopy ==
    \/ \E force \in BOOLEAN, outs \in {<<"fs">>, <<"s3">>}, skipPrompt \in BOOLEAN :
            CreateStart(force, outs, TRUE, TRUE, skipPrompt)
    \/ \E password \in Passwords, confirm \in Passwords : EnterPassword(password, confirm)
    \/ \E line \in AnswerLines, typed \in Passphrases, confirm \in Passphrases :
            CreatePassphrase(line, typed, confirm)
    \/ \E failAt \in 0..3, env \in PutEnvsOf(cur.outs) : CreateSave(failAt, env)
    \/ \E from \in Dests, to \in Dests, listOK \in BOOLEAN, env \in PutEnvs :
            CopyCmd(from, to, listOK, env)

SpecCopy == InitTx /\ [][NextCopy]_vars

(***************************************************************************)
(* Calls of util.Put, util.Get and util.List with the provider keychain,   *)
(* one call per process.                                                   *)
(***************************************************************************)
StorageCall(call, filePath, result) ==
    /\ pc = "idle"
    /\ out' = [call |-> call, filePath |-> filePath, result |-> result]
    /\ UNCHANGED <<store, rngCount, sealLog, createLog, writeLog, deriveLog, net, pc, cur,
                   runs, faults>>

\* the last call made was `call`
IsStorageCall(call) == "call" \in DOMAIN out /\ out.call = call

PutKeychain(data, filePath, withForce, addOK) ==
    LET r == KeychainPut(world.keychain, data, filePath, withForce, addOK) IN
    /\ world' = [world EXCEPT !.keychain = r.items,
                              !.lastPut[filePath] =
                                  IF r.err = "" /\ r.exit = <<>> THEN <<data>>
                                  ELSE IF r.exit = <<>> THEN <<>> ELSE @]
    /\ StorageCall("Put", <<filePath>>, [err |-> r.err, exit |-> r.exit])

GetKeychain(filePath) ==
    /\ world' = world
    /\ StorageCall("Get", <<filePath>>, KeychainGet(world.keychain, filePath))

ListKeychain ==
    /\ world' = world
    /\ StorageCall("List", <<>>, ListWallets(world.keychain))

NextKeychain ==
    \/ \E data \in {"wallet-A", "wallet-B"}, filePath \in KeychainPaths, withForce \in BOOLEAN,
          addOK \in BOOLEAN : PutKeychain(data, filePath, withForce, addOK)
    \/ \E filePath \in KeychainPaths : GetKeychain(filePath)
    \/ ListKeychain

SpecKeychain == Init /\ [][NextKeychain]_vars

(***************************************************************************)
(* The OAuth authorization every Google Drive, Dropbox and Box operation   *)
(* starts with: a local HTTP server receives the redirect, the code it     *)
(* carries is exchanged for a token.  No token is kept between operations. *)
(***************************************************************************)
\* the pattern the callback handler is registered under on the process-wide
\* http.DefaultServeMux; Dropbox builds a ServeMux of its own for every call
DefaultMuxPattern(provider) ==
    IF provider = "google" THEN <<"/">>
    ELSE IF provider = "box" THEN <<"/box-callback">>
    ELSE <<>>

\* the state parameter put in the authorization URL: 16 random bytes in
\* base64 (the error of rand.Read is not looked at), the constant of Box
AuthState(provider, k, fails) ==
    IF provider = "box" THEN <<"box-state">>
    ELSE B64Encode(RandRead(k, 16, fails).bytes)

\* reads of the random source: the state; for Dropbox also the PKCE verifier
AuthReads(provider) ==
    IF provider = "box" THEN 0 ELSE IF provider = "dropbox" THEN 2 ELSE 1

\* the callback handler: TRUE when the request's code is taken
\*   stateParam: <<>> when the request has no state parameter
HandlerTakesCode(provider, expected, stateParam, code) ==
    IF provider = "box"
    THEN code # ""
    ELSE stateParam = <<expected>> /\ code # ""

\* a storage operation begins: the state, the handler, the browser
\* http.HandleFunc panics when the pattern already has a handler
CloudOp(provider, fails) ==
    /\ pc \in {"idle", "op_done"}
    /\ pc = "idle" => runs < MaxRuns
    /\ world.ops < MaxOps
    /\ rngCount + AuthReads(provider) <= MaxDraws
    /\ rngCount' = rngCount + AuthReads(provider)
    /\ runs' = IF pc = "idle" THEN runs + 1 ELSE runs
    /\ LET pattern == DefaultMuxPattern(provider)
           regs == IF pattern = <<>> THEN world.registrations
                   ELSE [world.registrations EXCEPT ![pattern[1]] = @ + 1]
           w == [world EXCEPT !.registrations = regs, !.ops = @ + 1]
       IN  IF provider = "dropbox" /\ fails
           THEN /\ Finish(Failed("copy", "pkce"))
                /\ world' = [w EXCEPT !.registrations = NoWorld.registrations, !.ops = 0]
           ELSE IF pattern # <<>> /\ world.registrations[pattern[1]] > 0
           THEN /\ Finish(Failed("copy", "panic"))
                /\ world' = [w EXCEPT !.ops = 0]
           ELSE /\ pc' = "oauth_wait"
                /\ cur' = [Idle EXCEPT !.cmd = "copy"]
                /\ out' = NoOut
                /\ world' = [w EXCEPT !.auth =
                                [NoAuth EXCEPT !.provider = provider,
                                               !.state = AuthState(provider, rngCount + 1,
                                                                   fails)]]
    /\ UNCHANGED <<store, sealLog, createLog, writeLog, deriveLog, net, faults>>

\* requests sent to the callback address: without a state parameter, with
\* the state of the authorization URL, with another one
\* one request reaches the callback handler
Callback(kind, code) ==
    /\ pc = "oauth_wait"
    /\ LET stateParam == IF kind = "missing" THEN <<>>
                         ELSE IF kind = "expected" THEN <<world.auth.state>>
                         ELSE <<<<"other">>>> IN
       IF HandlerTakesCode(world.auth.provider, world.auth.state, stateParam, code)
       THEN /\ pc' = "oauth_exchange"
            /\ world' = [world EXCEPT !.auth.code = code, !.auth.via = stateParam]
       ELSE UNCHANGED <<pc, world>>
    /\ UNCHANGED <<store, rngCount, sealLog, createLog, writeLog, deriveLog, net, cur, out,
                   runs, faults>>

\* config.Exchange(ctx, code); its error ends the command
Exchange(ok) ==
    /\ pc = "oauth_exchange"
    /\ LET w == [world EXCEPT !.exchanged = @ \cup {world.auth}, !.auth = NoAuth]
       IN  IF ok
           THEN /\ pc' = "op_done"
                /\ world' = w
                /\ UNCHANGED <<cur, out>>
           ELSE /\ Finish(Failed("copy", "token"))
                /\ world' = [w EXCEPT !.registrations = NoWorld.registrations, !.ops = 0]
    /\ UNCHANGED <<store, rngCount, sealLog, createLog, writeLog, deriveLog, net, runs,
                   faults>>

\* the process ends after its last operation
ProcessEnd ==
    /\ pc = "op_done"
    /\ Finish(Failed("copy", "ok"))
    /\ world' = [world EXCEPT !.registrations = NoWorld.registrations, !.ops = 0]
    /\ UNCHANGED <<store, rngCount, sealLog, createLog, writeLog, deriveLog, net, runs,
                   faults>>

NextOAuth ==
    \/ \E provider \in {"google", "dropbox", "box"}, fails \in BOOLEAN : CloudOp(provider, fails)
    \/ \E kind \in {"missing", "expected", "other"}, code \in {"", "code-1", "code-2"} : Callback(kind, code)
    \/ \E ok \in BOOLEAN : Exchange(ok)
    \/ ProcessEnd

SpecOAuth == Init /\ [][NextOAuth]_vars

(***************************************************************************)
(* Properties of the envelope, of the addresses and of the storage.        *)
(***************************************************************************)
EnvelopeOf(file) == Unmarshal(file).EncryptedMnemonic

DecryptionFailed == [mnemonic |-> <<>>, err |-> "decryption failed"]

\* C1: decrypting an envelope EncryptMnemonic produced, with the password it was
\* produced with, gives back exactly the mnemonic that was encrypted; a get on
\* the untouched envelope with that password never fails to decrypt.
RoundTrip ==
    \A i \in 1..Len(sealLog) :
        LET s == sealLog[i]
        IN  /\ DecryptMnemonic(s.env, s.password) = [mnemonic |-> s.mnemonic, err |-> ""]
            /\ (pc = "get_passphrase" /\ EnvelopeOf(cur.file) = s.env)
                  => cur.mnemonic = s.mnemonic
            /\ (out.cmd = "get" /\ out.status = "decrypt" /\ out.password = s.password)
                  => EnvelopeOf(out.file) # s.env

\* a get has decrypted a stored envelope and holds the mnemonic create encrypted
RoundTripReached ==
    /\ pc = "get_passphrase"
    /\ \E i \in 1..Len(sealLog) :
          /\ EnvelopeOf(cur.file) = sealLog[i].env
          /\ cur.password = sealLog[i].password
          /\ cur.mnemonic = sealLog[i].mnemonic

\* C2: a wrong password, or one flipped bit in the ciphertext, the nonce or the
\* salt, always makes decryption fail, with the same "decryption failed" error
\* and no plaintext in every one of these cases; get succeeds only on an
\* untouched envelope with the password it was sealed with.
WrongPasswordOrTamperFails ==
    /\ \A i \in 1..Len(sealLog) : \A pw \in Passwords :
          /\ pw # sealLog[i].password
                => DecryptMnemonic(sealLog[i].env, pw) = DecryptionFailed
          /\ \A f \in TamperFields :
                DecryptMnemonic(Tamper(sealLog[i].env, f), pw) = DecryptionFailed
    /\ pc = "get_passphrase"
          => \E i \in 1..Len(sealLog) :
                /\ EnvelopeOf(cur.file) = sealLog[i].env
                /\ cur.password = sealLog[i].password

\* a get with the right password has failed on a damaged envelope
TamperRejected ==
    /\ out.cmd = "get"
    /\ out.status = "decrypt"
    /\ \E i \in 1..Len(sealLog), f \in TamperFields :
          /\ EnvelopeOf(out.file) = Tamper(sealLog[i].env, f)
          /\ out.password = sealLog[i].password

\* C3: every call of EncryptMnemonic draws a new 16-byte salt and a new nonce
\* from the random source, so no salt, no nonce and no (key, nonce) pair is used
\* by two encryptions.
FreshSaltAndNonce ==
    \A i \in 1..Len(sealLog) :
        /\ sealLog[i].salt.len = 16
        /\ sealLog[i].nonce.len = 12
        /\ sealLog[i].salt.id # sealLog[i].nonce.id
        /\ \A j \in 1..Len(sealLog) :
              i # j =>
                /\ sealLog[i].salt # sealLog[j].salt
                /\ sealLog[i].nonce # sealLog[j].nonce
                /\ sealLog[i].salt.id # sealLog[j].nonce.id
                /\ <<sealLog[i].key, sealLog[i].nonce>> # <<sealLog[j].key, sealLog[j].nonce>>

\* two encryptions under the same password have happened
TwoEncryptionsSamePassword ==
    /\ Len(sealLog) >= 2
    /\ sealLog[1].password = sealLog[2].password

\* C4: the address create printed for a wallet is the address a later get prints
\* for the same wallet file with the same password and the same passphrase.
CreateGetSameAddress ==
    \A c \in createLog :
        (/\ c.cmd = "create"
         /\ out.cmd = "get"
         /\ out.status = "ok"
         /\ out.file = c.file
         /\ out.password = c.password
         /\ out.passphrase = c.passphrase)
            => out.address = c.address

\* a get has printed the address of a wallet created with a passphrase
CreateGetWithPassphrase ==
    \E c \in createLog :
        /\ c.cmd = "create"
        /\ c.passphrase = PassD
        /\ out.cmd = "get"
        /\ out.status = "ok"
        /\ out.file = c.file
        /\ out.password = c.password
        /\ out.passphrase = c.passphrase
        /\ out.address = c.address

\* C5: every flow that decrypts a wallet file and derives a key from it derives
\* at exactly the derivation path stored in the file, and at m/44'/60'/0'/0/0
\* only when the file stores none.
StoredPathUsed ==
    \A e \in deriveLog :
        e.used = IF e.stored # ""
                 THEN ParseDerivationPath(e.stored).path
                 ELSE DefaultBaseDerivationPath

\* C8: without --force no write of a Put replaces an existing wallet.
NoOverwriteWithoutForce ==
    \A w \in writeLog : w.existed => w.force

(***************************************************************************)
(* Properties of the vanity search.                                        *)
(***************************************************************************)
\* C6: whenever the search loop exits with a result, the returned address is
\* the one derived from the returned mnemonic (empty passphrase, default path)
\* and it matches the compiled pattern.
VanityResultMatches ==
    pc \in {"special_approve", "special_password", "special_save"} =>
        /\ cur.attempts >= 1
        /\ cur.address =
             <<Derive(NewSeed(cur.mnemonic, NoPassphrase), DefaultBaseDerivationPath).address>>
        /\ MatchString(cur.pattern, cur.address[1])

\* the search has found a match after at least one candidate that did not match
VanityFoundAfterMiss ==
    /\ pc = "special_approve"
    /\ cur.attempts >= 2
    /\ MatchString(cur.pattern, cur.address[1])

\* C7: in create-special the address approved by the user is the address
\* reported for the saved wallet, and it is the address of the saved mnemonic
\* with the empty passphrase at the default path, whatever the AES password.
SpecialAddressStable ==
    \A c \in createLog :
        c.cmd = "create-special" =>
            /\ c.approved = c.address
            /\ c.address =
                 <<Derive(NewSeed(c.mnemonic, NoPassphrase), DefaultBaseDerivationPath).address>>
            /\ \E i \in 1..Len(sealLog) :
                  /\ sealLog[i].env = EnvelopeOf(c.file)
                  /\ sealLog[i].mnemonic = c.mnemonic
                  /\ sealLog[i].password = c.password

\* two vanity wallets have been saved under different AES passwords
SpecialSavedTwoPasswords ==
    \E c1, c2 \in createLog :
        /\ c1.cmd = "create-special" /\ c2.cmd = "create-special"
        /\ c1.saved >= 1 /\ c2.saved >= 1
        /\ c1.password # c2.password

(***************************************************************************)
(* Properties of the broadcast.                                            *)
(***************************************************************************)
\* C9: a transfer run with --dry-run or --estimate-only never broadcasts.
NoBroadcastOnDryRun ==
    \A e \in net : ~e.dryRun /\ ~e.estimateOnly

\* a transfer with --dry-run has ended, and another transfer has broadcast
DryRunEnded ==
    /\ out.cmd = "transfer"
    /\ out.status = "dry_run"
    /\ net # {}

\* every broadcast transaction carries the signature of the derived key, was
\* confirmed by --yes or by an answer whose scanned word is y / Y, and for
\* sign-raw-tx was asked for with --broadcast
BroadcastGatedOnWord ==
    \A e \in net :
        /\ e.tx # <<>>
        /\ e.tx[1].sig = [key |-> e.key, raw |-> e.tx[1].raw]
        /\ e.autoConfirm \/ (e.answer # <<>> /\ Scanln(e.answer[1]) \in {"y", "Y"})
        /\ e.cmd = "sign-raw-tx" => e.broadcast /\ e.answer # <<>>

\* C10: a transaction is broadcast only after it was signed successfully and,
\* unless --yes was given, only after the user answered y / Y to the prompt,
\* any other answer ending the command with nothing broadcast; sign-raw-tx
\* broadcasts only with --broadcast.
BroadcastOnlyAfterYes ==
    \A e \in net :
        /\ e.tx # <<>>
        /\ e.tx[1].sig = [key |-> e.key, raw |-> e.tx[1].raw]
        /\ e.autoConfirm \/ (e.answer # <<>> /\ e.answer[1] \in {<<"y">>, <<"Y">>})
        /\ e.cmd = "sign-raw-tx" => e.broadcast /\ e.answer # <<>>

(***************************************************************************)
(* Properties of the error paths.                                          *)
(***************************************************************************)
\* C11: when EncryptMnemonic fails, the envelope it returns next to the error
\* has no populated field: no version, no algorithm identifiers, no KDF
\* parameters, no salt and no nonce.
FailedEncryptReturnsNoEnvelope ==
    out.status = "encrypt" => out.envelope = <<EmptyEnvelope>>

\* C12: key derivation validates the mnemonic first; a mnemonic with a word
\* outside the BIP39 wordlist or with a wrong checksum is rejected with the
\* "invalid mnemonic" error, and no address and no private key come out of it.
InvalidMnemonicRejected ==
    (/\ pc = "returned"
     /\ out.call \in {"getAddressFromMnemonic", "getAddressFromMnemonicStd"}
     /\ ~WellFormedMnemonic(cur.mnemonic))
        => /\ out.result.err = "invalid mnemonic"
           /\ out.result.address = <<>>
           /\ out.result.privateKey = <<>>

\* C13: a failure of the random source to supply entropy ends the operation
\* with an error at once, in create and in every iteration of the vanity
\* search: no command goes on after one.
EntropyFailureIsFatal ==
    cur.entropyErr => pc = "idle"

\* C14: in create-special nothing is encrypted or written before a matching
\* address was found and accepted; a command ended by Ctrl+C or by the user
\* turning the address down has written no wallet file to any destination.
SavedOnlyAfterAccepted ==
    [][/\ (store' # store \/ writeLog' # writeLog \/ sealLog' # sealLog) =>
            /\ pc = "special_save"
            /\ cur.address # <<>>
            /\ MatchString(cur.pattern, cur.address[1])
            /\ cur.approval # <<>>
            /\ TrimLower(cur.approval[1]) \notin {<<"n">>, <<"no">>}
       /\ (pc # "idle" /\ pc' = "idle" /\ out'.status \in {"interrupted", "cancelled"}) =>
            /\ store' = store
            /\ writeLog' = writeLog
            /\ sealLog' = sealLog]_vars

\* the user has turned down a found address and no destination holds a file
DeclinedNothingWritten ==
    /\ out.cmd = "create-special"
    /\ out.status = "cancelled"
    /\ rngCount >= 2
    /\ \A d \in Dests : store[d] = NoFile

\* the next candidates of the running search, within the iterations explored
MatchAhead ==
    \E k \in 1..(MaxAttempts - cur.attempts) :
        /\ rngCount + k <= MaxDraws
        /\ VanityStep(rngCount + k - 1, cur.pattern, FALSE).found

\* C15: the search has no iteration cap and no timeout: it is left only by a
\* match (with the winning mnemonic and address) or by an interrupt, and when
\* a matching candidate lies ahead it does reach the found address.
SearchEndsByMatch ==
    /\ [][(pc = "special_search" /\ pc' # "special_search") =>
            \/ /\ pc' = "special_approve"
               /\ cur'.mnemonic # <<>>
               /\ cur'.address # <<>>
               /\ MatchString(cur'.pattern, cur'.address[1])
            \/ /\ pc' = "idle"
               /\ out'.status = "interrupted"]_vars
    /\ (pc = "special_search" /\ MatchAhead)
          ~> (pc = "special_approve" \/ (pc = "idle" /\ out.status = "interrupted"))

\* a search has found its address at the third candidate
FoundAtThirdCandidate ==
    /\ pc = "special_approve"
    /\ cur.attempts >= 3
    /\ MatchString(cur.pattern, cur.address[1])

\* C16: a pattern that does not compile is rejected before the search loop
\* starts: the command ends at once, no mnemonic is generated for it and no
\* iteration runs.
InvalidPatternRejectedFirst ==
    /\ [](cur.cmd = "create-special" => cur.pattern # "^0x(")
    /\ [][(pc = "idle" /\ out'.status = "pattern") =>
            /\ pc' = "idle"
            /\ rngCount' = rngCount
            /\ store' = store]_vars

\* an invalid pattern was rejected in a session that had searched before
InvalidPatternRejected ==
    /\ out.cmd = "create-special"
    /\ out.status = "pattern"
    /\ rngCount >= 1

\* C17: SignTransaction returns an error and the empty string whenever the raw
\* transaction is not hex, does not decode as a transaction or the private key
\* is invalid; it returns a signed transaction only when every step succeeded,
\* and never data next to an error.
SignAllOrNothing ==
    (pc = "returned" /\ out.call = "SignTransaction") =>
        LET rawTx == cur.signedTx[1]
            r == out.result
            bad == ~rawTx.hex \/ ~rawTx.valid \/ cur.privateKey = <<>>
        IN  /\ bad => (r.err # "" /\ r.tx = <<>>)
            /\ r.err # "" => r.tx = <<>>
            /\ r.tx # <<>> =>
                  /\ r.err = ""
                  /\ ~bad
                  /\ rawTx.signable
                  /\ r.tx[1].sig = [key |-> cur.privateKey, raw |-> rawTx]

\* a well-formed transaction was refused because the private key is invalid
InvalidKeyRefused ==
    /\ pc = "returned"
    /\ out.call = "SignTransaction"
    /\ cur.signedTx[1].hex /\ cur.signedTx[1].valid /\ cur.signedTx[1].signable
    /\ cur.privateKey = <<>>
    /\ out.result = [tx |-> <<>>, err |-> "invalid private key"]

\* C18: in sign-message a message flagged as hex that does not begin with 0x is
\* rejected before the wallet file is loaded, the password asked for or the
\* key derivation run: no sign-message command gets past its flags with one.
HexMessageCheckedFirst ==
    (cur.cmd = "sign-message" /\ pc # "idle") =>
        ~(cur.hex /\ ~HasPrefix0x(cur.message))

\* C20: the get, sign and transfer flows only read: no step of one of them, on
\* success or on an error path, writes, replaces or deletes a stored wallet.
ReadFlowsNeverWrite ==
    [][LET cmd == IF pc # "idle" THEN cur.cmd
                  ELSE IF pc' # "idle" THEN cur'.cmd ELSE out'.cmd
       IN  (runs' # runs \/ pc # "idle") =>
               /\ cmd \in ReadCmds
               /\ store' = store
               /\ writeLog' = writeLog]_vars

\* a transfer was broadcast, a get has then printed the address, and the
\* storage is as create left it
ReadAndStoreAsCreated ==
    /\ out.cmd = "get"
    /\ out.status = "ok"
    /\ net # {}
    /\ store = Created.store

\* C19: the wallet file written by create and create-special has the version,
\* the two paths, the testnet flag and the envelope, and nothing else; every
\* field of the envelope is a constant, random bytes, or the sealed box, so the
\* file holds no passphrase, no AES password, no plaintext mnemonic and no
\* private key.
WalletFileHoldsNoSecret ==
    /\ \A d \in Dests : Exists(store, d) => \E c \in createLog : store[d] = c.file
    /\ \A c \in createLog :
          LET wallet == Unmarshal(c.file)
              env == wallet.EncryptedMnemonic
          IN  /\ DOMAIN wallet =
                   {"Version", "EncryptedMnemonic", "HDPath", "DerivationPath", "TestNet"}
              /\ wallet.Version = 1
              /\ wallet.HDPath = "m/44'/60'/0'/0"
              /\ wallet.DerivationPath = "m/44'/60'/0'/0/0"
              /\ wallet.TestNet = FALSE
              /\ DOMAIN env =
                   {"Version", "Algorithm", "KeyDerivation", "Memory", "Iterations",
                    "Parallelism", "KeyLength", "Salt", "Nonce", "Ciphertext"}
              /\ env.Version = 1
              /\ env.Algorithm = "AES-256-GCM"
              /\ env.KeyDerivation = "Argon2id"
              /\ env.Memory = 1048576 /\ env.Iterations = 12
              /\ env.Parallelism = 4 /\ env.KeyLength = 32
              /\ \E i \in 1..Len(sealLog) :
                    /\ env.Salt = <<"b64", sealLog[i].salt>>
                    /\ env.Nonce = <<"b64", sealLog[i].nonce>>
                    /\ env.Ciphertext =
                         <<"b64", Seal(sealLog[i].key, sealLog[i].nonce, c.mnemonic)>>
                    /\ DOMAIN sealLog[i].salt = {"id", "len", "x"}
                    /\ DOMAIN sealLog[i].nonce = {"id", "len", "x"}

\* a wallet made by create with a passphrase and a vanity wallet were both saved
BothKindsSaved ==
    \E c1, c2 \in createLog :
        /\ c1.cmd = "create" /\ c1.passphrase = PassD /\ c1.saved >= 1
        /\ c2.cmd = "create-special" /\ c2.saved >= 1

(***************************************************************************)
(* Properties of the passwords.                                            *)
(***************************************************************************)
\* every mnemonic was sealed under a password isStrongPassword accepts
SealedUnderAcceptedPassword ==
    \A i \in 1..Len(sealLog) : isStrongPassword(sealLog[i].password)

\* C21: isStrongPassword returns true exactly when the password has at least
\* eight characters and holds an uppercase letter, a lowercase letter, a digit
\* and a special character; create never seals a mnemonic under a password it
\* returns false for.
StrongExactlyWhenEightAndAllClasses ==
    /\ (pc = "returned" /\ out.call = "isStrongPassword") =>
          (out.result <=>
              /\ Len(cur.password) >= 8
              /\ \E i \in 1..Len(cur.password) : cur.password[i] \in UpperChars
              /\ \E i \in 1..Len(cur.password) : cur.password[i] \in LowerChars
              /\ \E i \in 1..Len(cur.password) : cur.password[i] \in DigitChars
              /\ \E i \in 1..Len(cur.password) : cur.password[i] \in SpecialChars)
    /\ SealedUnderAcceptedPassword

\* C22: a wallet is created only if the AES password and, when one is set,
\* the BIP39 passphrase each hold an uppercase letter, a lowercase letter and
\* a digit.
PasswordAndPassphraseMixed ==
    \A c \in createLog :
        c.cmd = "create" =>
            /\ \E i \in 1..Len(c.password) : c.password[i] \in UpperChars
            /\ \E i \in 1..Len(c.password) : c.password[i] \in LowerChars
            /\ \E i \in 1..Len(c.password) : c.password[i] \in DigitChars
            /\ c.passphrase # <<>> =>
                  /\ \E i \in 1..Len(c.passphrase) : c.passphrase[i] \in UpperChars
                  /\ \E i \in 1..Len(c.passphrase) : c.passphrase[i] \in LowerChars
                  /\ \E i \in 1..Len(c.passphrase) : c.passphrase[i] \in DigitChars

\* C23: executing create with --output set to a directory and without --name
\* makes Execute return a non-nil error, with --name in the command's output,
\* and does not end the process.
MissingNameReturnsError ==
    (/\ pc = "returned"
     /\ out.call = "CreateCmd"
     /\ cur.outs = <<"/tmp/wallets">>
     /\ cur.args[2] = FALSE)
        => /\ out.result.err # ""
           /\ out.result.exit = <<>>
           /\ "--name" \in out.result.printed

\* C24: on the keychain backend, after successful Puts, Get on a path returns
\* exactly the bytes of the most recent Put to that path, and List contains the
\* wallet name (base name without extension) of every stored wallet.
\* The List half:
KeychainListHasEveryWallet ==
    IsStorageCall("List")
        => \A n \in WalletNames :
               world.lastPut[JoinJson(DEFAULT_CLOUD_FILE_DIR, n)] # <<>> => n \in out.result

\* the Get half of C24 (holds)
KeychainGetReturnsLastPut ==
    (IsStorageCall("Get") /\ world.lastPut[out.filePath[1]] # <<>>)
        => out.result = [data |-> world.lastPut[out.filePath[1]], err |-> ""]

\* C25: with --sync, after a successful broadcast the command returns only once
\* a receipt has been obtained or a receipt query failed with an error other
\* than "not found"; a "not found" answer leads, 2 seconds later, to the next
\* query, however many there have been.
WaitsUntilReceiptOrError ==
    /\ [](pc = "tx_wait" => cur.slept = 2 * cur.polls)
    /\ [][pc = "tx_wait" =>
            \/ pc' = "tx_wait" /\ cur'.polls = cur.polls + 1
            \/ pc' = "idle" /\ out'.status \in {"confirmed", "reverted", "receipt"}]_vars

StillWaitingAfterRetries == pc = "tx_wait" /\ cur.polls = MaxPolls /\ net # {}

\* C26: the callback handler of a cloud provider is registered once per
\* process: no sequence of storage operations of one process registers the
\* same route on the shared default mux a second time.
CallbackRegisteredOnce ==
    \A pattern \in DOMAIN world.registrations : world.registrations[pattern] <= 1

\* C27: a code is exchanged for a token only if it came in a callback request
\* whose state parameter equals the state generated for that authorization.
ExchangedCodeCameWithState ==
    \A e \in world.exchanged : e.via = <<e.state>>

\* C28: parseEthAmount and ParseTokenAmount reject every amount string that
\* denotes a negative number, those strictly between -1 and 0 included, and
\* never return a negative integer.
NegativeAmountsRejected ==
    (pc = "returned" /\ out.call \in {"parseEthAmount", "ParseTokenAmount"})
        => /\ DenotesNegative(cur.args[1]) => out.result.err # ""
           /\ out.result.err = "" => out.result.value[1].m >= 0

\* the second half of C28 (holds)
NoNegativeAmountReturned ==
    (pc = "returned" /\ out.call \in {"parseEthAmount", "ParseTokenAmount"})
        => (out.result.err = "" => out.result.value[1].m >= 0)

AnnouncedOnlyWhenStored ==
    \A e \in createLog : e.saved >= 1

====
